---- MODULE Spec2Model ----
(***************************************************************************)
(* Model of the deduplication ledger (dedup.py), the sync orchestrator     *)
(* (cli.py: process_activities, process_activities_with_user_stories,      *)
(* import_activities) and the multi-step creation protocol of the backend  *)
(* client (clients/azure_devops.py: create_task, create_user_story).       *)
(***************************************************************************)
EXTENDS Integers, Sequences, FiniteSets, TLC

\* ------------------------------------------------------------------ bounds
MaxLen == 3
MaxRuns == 2
MaxFaults == 1
MaxTid == 1
MaxText == 4
MaxTitle == 2

\* calls of test_connection on one client
MaxCalls == 3

\* --------------------------------------------------------------- constants
\* Optional[int] = None for ticket ids (ids assigned by the backend are >= 1)
NoId == 0
\* azure_devops.default_state of config.yaml when it is set
DefaultState == "Fechado"
NoState == "None"

\* ------------------------------------------------- dedup.py pure functions
\* unicodedata.normalize("NFKD", c) for the characters of the model:
\* "e_acute" is U+00E9, "E_acute" is U+00C9, "acute" is the combining U+0301
NFKD(c) ==
    CASE c = "e_acute" -> <<"e", "acute">>
      [] c = "E_acute" -> <<"E", "acute">>
      [] OTHER -> <<c>>

\* mutation: no character is taken for a combining one
combining_none(c) == FALSE

\* unicodedata.combining(c) != 0
combining(c) == c = "acute"

\* str.lower() on one character
lower(c) ==
    CASE c = "R" -> "r"
      [] c = "E" -> "e"
      [] c = "B" -> "b"
      [] OTHER -> c

\* str.isspace() on one character
isspace(c) == c = " "

RECURSIVE Decompose(_)
Decompose(text) ==
    IF text = <<>> THEN <<>> ELSE NFKD(Head(text)) \o Decompose(Tail(text))

\* str.split(): the words of s, split on runs of whitespace
RECURSIVE split(_, _)
split(s, word) ==
    IF s = <<>> THEN (IF word = <<>> THEN <<>> ELSE <<word>>)
    ELSE IF isspace(Head(s))
         THEN (IF word = <<>> THEN <<>> ELSE <<word>>) \o split(Tail(s), <<>>)
         ELSE split(Tail(s), Append(word, Head(s)))

\* " ".join(words)
RECURSIVE join(_)
join(words) ==
    IF words = <<>> THEN <<>>
    ELSE IF Len(words) = 1 THEN Head(words)
    ELSE Head(words) \o <<" ">> \o join(Tail(words))

normalize_text(text) ==
    LET nfkd == Decompose(text)
        ascii_text == SelectSeq(nfkd, LAMBDA c : ~combining(c))
        lowered == [i \in 1..Len(ascii_text) |-> lower(ascii_text[i])]
    IN  join(split(lowered, <<>>))

\* mutation: the day is left out of the date string ("%Y%m")
strftime_no_day(d) == d[1] * 100 + d[2]

\* activity_date.strftime("%Y%m%d") read as a number
strftime(d) == d[1] * 10000 + d[2] * 100 + d[3]

\* the characters of a decimal number
RECURSIVE Digits(_)
Digits(n) ==
    LET digit == <<"0", "1", "2", "3", "4", "5", "6", "7", "8", "9">>
    IN  IF n < 10 THEN <<digit[n + 1]>>
        ELSE Append(Digits(n \div 10), digit[(n % 10) + 1])

\* SourceType.value, character by character
SourceValue(source) ==
    CASE source = "outlook" -> <<"o", "u", "t", "l", "o", "o", "k">>
      [] source = "recurring" -> <<"r", "e", "c", "u", "r", "r", "i", "n", "g">>
      [] source = "git" -> <<"g", "i", "t">>

\* the string that is hashed: f"{source.value}:{normalized_title}:{date_str}"
content(source, title, activity_date) ==
    SourceValue(source) \o <<":">> \o normalize_text(title) \o <<":">>
        \o Digits(strftime(activity_date))

\* sha256 is taken to be injective; the digest stands for the three parts of
\* its content, which the content determines (the source value holds no ":",
\* the date string is what follows the last ":")
generate_hash(source, title, activity_date) ==
    <<source, normalize_text(title), strftime(activity_date)>>

generate_user_story_hash(year, month) ==
    <<"user_story", year * 100 + month>>

\* ------------------------------------------------------------- activities
\* models.Activity restricted to the identity fields
Activity(t, s, d) == [title |-> t, source |-> s, date |-> d]

Universe ==
    { Activity(<<"R", "e_acute">>, "outlook", <<2026, 1, 5>>),
      Activity(<<" ", "r", "e">>, "outlook", <<2026, 1, 5>>),
      Activity(<<"b">>, "git", <<2026, 2, 3>>),
      Activity(<<"B">>, "recurring", <<2025, 12, 9>>) }

Hash(a) == generate_hash(a.source, a.title, a.date)

MonthOf(a) == <<a.date[1], a.date[2]>>

\* the lists a collection can hand over: distinct activities, in any order
\* (two of them may still share a fingerprint)
Inputs ==
    { acts \in UNION { [1..n -> Universe] : n \in 0..MaxLen } :
        \A i, j \in 1..Len(acts) : acts[i] = acts[j] => i = j }


\* ------------------------------------------------------------------ state
VARIABLES
    file,           \* content of data/processed.json
    data,           \* DedupManager._data of the running process
    backend,        \* work items held by Azure DevOps
    nextId,         \* next id the backend assigns
    runs,           \* number of command invocations started
    pc,             \* where the running command is suspended
    mode,           \* "flat" | "grouped" | "import"
    dry_run,
    activities,     \* the list handed to the orchestrator
    months,         \* month keys still to process (grouped mode)
    bucket,         \* indexes into activities of the list being looped over
    idx,            \* position in bucket
    user_story_id,  \* the active parent id of the current month
    created,
    skipped,
    failed,         \* indexes of the activities reported with an error
    req,            \* TaskConfig / UserStoryConfig of the call in flight
    task_id,        \* id returned by the POST of the call in flight
    calls,          \* requests the call in flight has issued, with their outcome
    order,          \* indexes of the activities visited by the run, in order
    attempted,      \* creation requests POSTed by the run
    injected,       \* requests of the run that were made to fail
    last,           \* how the last creation call of the run ended
    faults,         \* number of requests made to fail so far
    hist,           \* what has happened in the runs so far
    file0,          \* file as it was when the current run started
    prev,           \* summary of the previous run
    ledger_op,      \* the last call of a DedupManager method: name, argument, result
    pure,           \* a function of dedup.py applied on its own: inputs and result
    llm,            \* the enhance_description call: attempt, requests, sleeps, result
    col,            \* the collection loop of the run command
    cmd,            \* a command of the CLI or a call of the client, on its own
    written,        \* activities marked and not removed or cleared since
    us_marked       \* per month, the parent id of the last mark_user_story_processed

vars == <<file, data, backend, nextId, runs, pc, mode, dry_run, activities,
          months, bucket, idx, user_story_id, created, skipped, failed, req,
          task_id, calls, order, attempted, injected, last, faults, hist, file0,
          prev, ledger_op, written, us_marked, pure, llm, col, cmd>>

\* what the orchestrator and the ledger leave alone
aux == <<pure, llm, col, cmd>>

\* --------------------------------------------------------- ledger (dedup.py)
EmptyTable == <<>>

Put(t, k, v) == [h \in DOMAIN t \cup {k} |-> IF h = k THEN v ELSE t[h]]

NotLoaded == [loaded |-> FALSE, processed |-> EmptyTable, user_stories |-> EmptyTable]

MissingFile == [kind |-> "missing", processed |-> EmptyTable, user_stories |-> EmptyTable]

\* html href of a work item, as returned by the backend
Url(id) == <<"_workitems/edit", id>>

\* mutation: a file without the monthly table is taken for an empty ledger
_load_old_resets(d, f) ==
    IF d.loaded THEN d
    ELSE IF f.kind \in {"missing", "empty", "old"}
         THEN [loaded |-> TRUE, processed |-> EmptyTable, user_stories |-> EmptyTable]
         ELSE [loaded |-> TRUE, processed |-> f.processed, user_stories |-> f.user_stories]

\* mutation: the file is never read, every process starts from empty tables
_load_ignores_file(d, f) ==
    IF d.loaded THEN d
    ELSE [loaded |-> TRUE, processed |-> EmptyTable, user_stories |-> EmptyTable]

\* DedupManager._load: the cached data, or the file's content
_load(d, f) ==
    IF d.loaded THEN d
    ELSE IF f.kind \in {"missing", "empty"}
         THEN [loaded |-> TRUE, processed |-> EmptyTable, user_stories |-> EmptyTable]
         ELSE [loaded |-> TRUE, processed |-> f.processed,
               user_stories |-> IF f.kind = "old" THEN EmptyTable ELSE f.user_stories]

\* mutation: only the activity table is written
_save_drops_user_stories(d) ==
    [kind |-> "old", processed |-> d.processed, user_stories |-> EmptyTable]

\* DedupManager._save: the whole file is rewritten from the cached data
_save(d) ==
    [kind |-> "json", processed |-> d.processed, user_stories |-> d.user_stories]

\* mutation: an entry stored without a ticket id does not count
is_processed_needs_id(d, a) ==
    Hash(a) \in DOMAIN d.processed /\ d.processed[Hash(a)].task_id # NoId

\* mutation: the lookup never finds the fingerprint
is_processed_never(d, a) == FALSE

is_processed(d, a) == Hash(a) \in DOMAIN d.processed

\* mutation: an existing entry is kept (setdefault)
mark_processed_keeps_first(d, a, id, url) ==
    IF Hash(a) \in DOMAIN d.processed THEN d
    ELSE [d EXCEPT !.processed =
            Put(@, Hash(a), [source |-> a.source, title |-> a.title, date |-> a.date,
                             task_id |-> id, task_url |-> url])]

\* mutation: the entry is not stored
mark_processed_drops(d, a, id, url) == d

mark_processed(d, a, id, url) ==
    [d EXCEPT !.processed =
        Put(@, Hash(a), [source |-> a.source, title |-> a.title, date |-> a.date,
                         task_id |-> id, task_url |-> url])]

is_user_story_processed(d, year, month) ==
    generate_user_story_hash(year, month) \in DOMAIN d.user_stories

\* mutation: the parent of a month that is already recorded is kept
mark_user_story_processed_keeps_first(d, year, month, id, url) ==
    IF generate_user_story_hash(year, month) \in DOMAIN d.user_stories THEN d
    ELSE [d EXCEPT !.user_stories =
            Put(@, generate_user_story_hash(year, month),
                [year |-> year, month |-> month,
                 user_story_id |-> id, user_story_url |-> url])]

mark_user_story_processed(d, year, month, id, url) ==
    [d EXCEPT !.user_stories =
        Put(@, generate_user_story_hash(year, month),
            [year |-> year, month |-> month,
             user_story_id |-> id, user_story_url |-> url])]

\* mutation: the stored parent is not found
get_user_story_id_none(d, year, month) == NoId

get_user_story_id(d, year, month) ==
    LET us_hash == generate_user_story_hash(year, month)
    IN  IF us_hash \in DOMAIN d.user_stories
        THEN d.user_stories[us_hash].user_story_id
        ELSE NoId

Drop(t, k) == [h \in DOMAIN t \ {k} |-> t[h]]

\* DedupManager.remove without its save: del data["processed"][activity_hash]
remove(d, activity_hash) == [d EXCEPT !.processed = Drop(@, activity_hash)]

\* mutation: an entry stored without an id matches every id
task_id_matches_missing(entry, t) == entry.task_id = t \/ entry.task_id = NoId

\* the test of remove_by_task_id: entry.get("task_id") == task_id, where
\* task_id is an int and the stored id an int or None
task_id_matches(entry, t) == entry.task_id = t

\* mutation: every table is emptied
clear_all(d) == [d EXCEPT !.processed = EmptyTable, !.user_stories = EmptyTable]

\* DedupManager.clear without its save: data["processed"] = {}
clear(d) == [d EXCEPT !.processed = EmptyTable]

\* json.load raises on a file that holds only the beginning of a document
_load_raises(d, f) == ~d.loaded /\ f.kind = "partial"

\* a loaded document without the "processed" key: data["processed"] raises
\* KeyError; the key is never added by _load (only "user_stories" is)
NoTable == [h \in {<<"KeyError">>} |-> "processed"]

\* is_processed raises: json.load fails (dedup.py 95), or the loaded
\* document has no activity table (dedup.py 120)
is_processed_raises(d, f) ==
    _load_raises(d, f) \/ _load(d, f).processed = NoTable

\* ------------------------------------------------- grouping (cli.py 199-211)
\* mutation: the keys are compared by month first
MonthLess_month_first(a, b) == a[2] < b[2] \/ (a[2] = b[2] /\ a[1] < b[1])

\* the order of the (year, month) tuples under sorted()
MonthLess(a, b) == a[1] < b[1] \/ (a[1] = b[1] /\ a[2] < b[2])

RECURSIVE sorted(_)
sorted(S) ==
    IF S = {} THEN <<>>
    ELSE LET m == CHOOSE x \in S : \A y \in S \ {x} : MonthLess(x, y)
         IN  <<m>> \o sorted(S \ {m})

MonthKeys(acts) == { MonthOf(acts[i]) : i \in 1..Len(acts) }

\* by_month[key], as indexes into the input list, in input order
\* mutation: the bucket of a month holds every activity
by_month_all(acts, key) == [i \in 1..Len(acts) |-> i]

by_month(acts, key) ==
    SelectSeq([i \in 1..Len(acts) |-> i], LAMBDA i : MonthOf(acts[i]) = key)

\* ------------------------------------------------------------ run history
\* mutation: the state operation is sent whatever include_state says
to_json_patch_no_flag(r, include_state) ==
    {"/fields/System.Title", "/fields/System.AreaPath", "/fields/System.IterationPath"}
        \cup (IF r.kind = "Task"
               THEN {"/fields/Microsoft.VSTS.Scheduling.CompletedWork"} ELSE {})
        \cup (IF r.state # NoState THEN {"/fields/System.State"} ELSE {})

\* TaskConfig.to_json_patch / UserStoryConfig.to_json_patch (models.py 59-79,
\* 98-157): the paths of the operations; r is the request, with its kind
to_json_patch(r, include_state) ==
    {"/fields/System.Title", "/fields/System.AreaPath", "/fields/System.IterationPath"}
        \cup (IF r.kind = "Task"
               THEN {"/fields/Microsoft.VSTS.Scheduling.CompletedWork"} ELSE {})
        \cup (IF r.state # NoState /\ include_state THEN {"/fields/System.State"} ELSE {})

\* the REST url of a work item (azure_devops.py 134)
parent_url(id) == <<"_apis/wit/workitems", id>>
NoUrl == <<>>

\* a request of a creation call with its outcome: the paths of its JSON patch
\* body, the state it sets and the relation it adds
Call(op, res) ==
    [op |-> op, res |-> res,
     paths |-> CASE op = "POST" -> to_json_patch(req, FALSE)
                 [] op = "PATCH_STATE" -> {"/fields/System.State"}
                 [] OTHER -> {"/relations/-"},
     state |-> IF op = "PATCH_STATE" THEN req.state ELSE NoState,
     rel |-> IF op = "PATCH_PARENT" THEN "System.LinkTypes.Hierarchy-Reverse" ELSE "none",
     url |-> IF op = "PATCH_PARENT" THEN parent_url(req.parent_id) ELSE NoUrl]

NoReq == [kind |-> "none", key |-> <<>>, state |-> NoState, parent_id |-> NoId, idx |-> 0]

NoLast ==
    [kind |-> "none", key |-> <<>>, idx |-> 0, result |-> "none", file_before |-> MissingFile,
     calls |-> <<>>, state |-> NoState, parent_id |-> NoId, exc |-> "none"]

NoPrev ==
    [mode |-> "none", dry_run |-> FALSE, created |-> 0, skipped |-> 0,
     clean |-> TRUE, fresh |-> FALSE, raised |-> {}]

\* a failing request that makes the creation call raise: a POST that is not
\* answered 2xx (raise_for_status) or any request that fails in transport
Raising(f) == f.op = "POST" \/ f.res = "error"

\* the creations of the run that raised, as (kind, key)
RaisedKeys(inj) == { [kind |-> f.kind, key |-> f.key] : f \in { g \in inj : Raising(g) } }

\* the tables a new process reads from a file
Stored(f) == _load(NotLoaded, f)

Summary ==
    [mode |-> mode, dry_run |-> dry_run, created |-> created, skipped |-> skipped,
     clean |-> (injected = {}),
     fresh |-> (DOMAIN Stored(file0).processed = {}),
     raised |-> RaisedKeys(injected)]

NoOp == [name |-> "none"]

NoPure == [fn |-> "none"]

\* no enhance_description call has been made
NoLlm == [pc |-> "idle"]

\* no run command is collecting
NoCol == [pc |-> "idle"]

NoCmd == [pc |-> "idle"]

InitAux == pure = NoPure /\ llm = NoLlm /\ col = NoCol /\ cmd = NoCmd

\* the variables of the orchestrator and of the backend client
runVars ==
    <<backend, nextId, runs, pc, mode, dry_run, activities, months, bucket, idx,
      user_story_id, created, skipped, failed, req, task_id, calls, order,
      attempted, injected, last, faults, hist, file0, prev>>

\* the variables of the ledger
ledgerVars == <<file, data, ledger_op, written, us_marked>>

runCfg ==
    <<runs, mode, dry_run, activities, file0, prev, ledger_op, written, us_marked, aux>>

\* no command is running
InitOrch ==
    /\ backend = {}
    /\ nextId = 1
    /\ runs = 0
    /\ pc = "idle"
    /\ mode = "none"
    /\ dry_run = FALSE
    /\ activities = <<>>
    /\ months = <<>>
    /\ bucket = <<>>
    /\ idx = 1
    /\ user_story_id = NoId
    /\ created = 0
    /\ skipped = 0
    /\ failed = {}
    /\ req = NoReq
    /\ task_id = NoId
    /\ calls = <<>>
    /\ order = <<>>
    /\ attempted = {}
    /\ injected = {}
    /\ last = NoLast
    /\ faults = 0
    /\ hist = [only_grouped |-> TRUE, silent |-> FALSE]
    /\ file0 = MissingFile
    /\ prev = NoPrev

Init ==
    /\ file = MissingFile
    /\ data = NotLoaded
    /\ ledger_op = NoOp
    /\ written = {}
    /\ us_marked = <<>>
    /\ InitOrch
    /\ InitAux

\* ------------------------------------------------------ commands (cli.py)
\* run / import_activities up to the first loop head: a new process with a
\* new DedupManager, counters at zero, the activities grouped by month.
\* The first command fixes the collected list; later commands collect the
\* same list again.
StartRun(m, d, acts) ==
    /\ pc = "idle"
    /\ runs < MaxRuns
    /\ runs > 0 => acts = activities
    /\ runs' = runs + 1
    /\ mode' = m
    /\ dry_run' = d
    /\ activities' = acts
    /\ data' = NotLoaded
    /\ created' = 0
    /\ skipped' = 0
    /\ failed' = {}
    /\ calls' = <<>>
    /\ order' = <<>>
    /\ attempted' = {}
    /\ injected' = {}
    /\ last' = NoLast
    /\ hist' = [hist EXCEPT !.only_grouped = @ /\ m = "grouped" /\ ~d]
    /\ file0' = file
    /\ prev' = IF runs = 0 THEN NoPrev ELSE Summary
    /\ user_story_id' = NoId
    /\ req' = NoReq
    /\ task_id' = NoId
    /\ idx' = 1
    /\ IF m = "grouped"
       THEN /\ months' = sorted(MonthKeys(acts))
            /\ bucket' = <<>>
            /\ pc' = "month"
       ELSE /\ months' = <<>>
            /\ bucket' = [i \in 1..Len(acts) |-> i]
            /\ pc' = IF m = "flat" THEN "loop" ELSE "import"
    /\ UNCHANGED <<file, backend, nextId, faults, ledger_op, written, us_marked, aux>>

LoopPc == IF mode = "flat" THEN "loop" ELSE IF mode = "import" THEN "import" ELSE "child"

\* the body of the per-activity loop up to the create_task call
\* (cli.py 132-162, 247-278, 775-797)
\* mutation: a rehearsal records the activity it would create
Visit_dry_marks(state, parent) ==
    LET i == bucket[idx]
        a == activities[i]
        d == _load(data, file)
    IN  /\ order' = Append(order, i)
        /\ IF is_processed(d, a)
           THEN /\ skipped' = skipped + 1
                /\ idx' = idx + 1
                /\ data' = d
                /\ UNCHANGED <<pc, created, req, file>>
           ELSE IF dry_run
           THEN /\ created' = created + 1
                /\ idx' = idx + 1
                /\ data' = mark_processed(d, a, NoId, NoId)
                /\ file' = _save(data')
                /\ UNCHANGED <<pc, skipped, req>>
           ELSE /\ req' = [kind |-> "Task", key |-> Hash(a), state |-> state,
                           parent_id |-> parent, idx |-> i]
                /\ pc' = "post"
                /\ data' = d
                /\ UNCHANGED <<created, skipped, idx, file>>
        /\ UNCHANGED <<backend, nextId, months, bucket, user_story_id,
                       failed, task_id, calls, attempted, injected, last, faults,
                       hist, runCfg>>

Visit(state, parent) ==
    LET i == bucket[idx]
        a == activities[i]
        d == _load(data, file)
    IN  /\ data' = d
        /\ order' = Append(order, i)
        /\ IF is_processed(d, a)
           THEN /\ skipped' = skipped + 1
                /\ idx' = idx + 1
                /\ UNCHANGED <<pc, created, req>>
           ELSE IF dry_run
           THEN /\ created' = created + 1
                /\ idx' = idx + 1
                /\ UNCHANGED <<pc, skipped, req>>
           ELSE /\ req' = [kind |-> "Task", key |-> Hash(a), state |-> state,
                           parent_id |-> parent, idx |-> i]
                /\ pc' = "post"
                /\ UNCHANGED <<created, skipped, idx>>
        /\ UNCHANGED <<file, backend, nextId, months, bucket, user_story_id,
                       failed, task_id, calls, attempted, injected, last, faults,
                       hist, runCfg>>

\* the function returns (created, skipped)
Return ==
    /\ pc' = "idle"
    /\ UNCHANGED <<file, data, backend, nextId, months, bucket, idx,
                   user_story_id, created, skipped, failed, req, task_id,
                   calls, order, attempted, injected, last, faults, hist, runCfg>>

\* process_activities: one turn of the loop, or the return
ProcessActivity ==
    /\ pc = "loop"
    /\ IF idx > Len(bucket) THEN Return
       ELSE ~is_processed_raises(data, file) /\ Visit(DefaultState, NoId)

\* import_activities: one turn of the loop, or the return
ImportActivity ==
    /\ pc = "import"
    /\ IF idx > Len(bucket) THEN Return
       ELSE ~is_processed_raises(data, file) /\ Visit(NoState, NoId)

\* mutation: the parent of the month before stays the active one
fresh_user_story_id_carried(previous) == previous

\* user_story_id: Optional[int] = None, at the head of every month
fresh_user_story_id(previous) == NoId

\* process_activities_with_user_stories: the head of the month loop, get or
\* create the month's User Story up to the create_user_story call
ProcessMonth ==
    /\ pc = "month"
    /\ IF months = <<>>
       THEN Return
       ELSE LET year == Head(months)[1]
                month == Head(months)[2]
                d == _load(data, file)
            IN  /\ ~_load_raises(data, file)
                /\ data' = d
                /\ bucket' = by_month(activities, Head(months))
                /\ idx' = 1
                /\ IF is_user_story_processed(d, year, month)
                   THEN /\ user_story_id' = get_user_story_id(d, year, month)
                        /\ pc' = "child"
                        /\ UNCHANGED req
                   ELSE IF dry_run
                   THEN /\ user_story_id' = fresh_user_story_id(user_story_id)
                        /\ pc' = "child"
                        /\ UNCHANGED req
                   ELSE /\ user_story_id' = fresh_user_story_id(user_story_id)
                        /\ req' = [kind |-> "US", key |-> Head(months),
                                   state |-> DefaultState, parent_id |-> NoId, idx |-> 0]
                        /\ pc' = "post"
                /\ UNCHANGED <<file, backend, nextId, months, created, skipped,
                               failed, task_id, calls, order, attempted, injected,
                               last, faults, hist, runCfg>>

\* the loop over the month's activities, or the step to the next month
ProcessChild ==
    /\ pc = "child"
    /\ IF idx > Len(bucket)
       THEN /\ pc' = "month"
            /\ months' = Tail(months)
            /\ UNCHANGED <<file, data, backend, nextId, bucket, idx,
                           user_story_id, created, skipped, failed, req, task_id,
                           calls, order, attempted, injected, last, faults, hist,
                           runCfg>>
       ELSE ~is_processed_raises(data, file) /\ Visit(DefaultState, user_story_id)

\* --------------------------------------- clients/azure_devops.py + handlers
Ticket(id, r) ==
    [id |-> id, kind |-> r.kind, key |-> r.key, state |-> NoState,
     parent |-> NoId, returned |-> FALSE]

Outcomes == {"ok", "status", "error"}

\* a request is made to fail only while the budget of faults lasts
Inject(op, res) ==
    /\ res # "ok" => faults < MaxFaults
    /\ faults' = IF res = "ok" THEN faults ELSE faults + 1
    /\ injected' = IF res = "ok" THEN injected
                   ELSE injected \cup {[kind |-> req.kind, key |-> req.key,
                                        idx |-> req.idx, op |-> op, res |-> res]}
    /\ hist' = [hist EXCEPT !.silent = @ \/ (op # "POST" /\ res = "status")]

\* how a call that issued the requests c ended: with the created item, or
\* with the exception of its last request (raise_for_status: HTTPStatusError,
\* a failure of the transport: httpx.RequestError)
Ended(result, c) ==
    [kind |-> req.kind, key |-> req.key, idx |-> req.idx, result |-> result,
     file_before |-> file, calls |-> c, state |-> req.state, parent_id |-> req.parent_id,
     exc |-> IF result = "returned" THEN "none"
             ELSE IF c[Len(c)].res = "status" THEN "HTTPStatusError"
             ELSE "RequestError"]

\* mutation: the activity is marked without the ticket that was created
Returns_no_ticket(id, b, c) ==
    /\ backend' = { IF t.id = id THEN [t EXCEPT !.returned = TRUE] ELSE t : t \in b }
    /\ IF req.kind = "Task"
       THEN /\ data' = mark_processed(_load(data, file), activities[req.idx], NoId, NoId)
            /\ file' = _save(data')
            /\ created' = created + 1
            /\ idx' = idx + 1
            /\ pc' = LoopPc
            /\ UNCHANGED user_story_id
       ELSE /\ data' = mark_user_story_processed(_load(data, file), req.key[1], req.key[2],
                                                 id, Url(id))
            /\ file' = _save(data')
            /\ user_story_id' = id
            /\ pc' = "child"
            /\ UNCHANGED <<created, idx>>
    /\ req' = NoReq
    /\ task_id' = NoId
    /\ calls' = <<>>
    /\ last' = Ended("returned", c)
    /\ UNCHANGED <<months, bucket, skipped, failed, order, runCfg>>

\* create_task / create_user_story returns the created item to its caller,
\* which records it in the ledger (cli.py 163-165, 237-239, 279-281, 798-800);
\* b is the backend after the last request
Returns(id, b, c) ==
    /\ backend' = { IF t.id = id THEN [t EXCEPT !.returned = TRUE] ELSE t : t \in b }
    /\ IF req.kind = "Task"
       THEN /\ data' = mark_processed(_load(data, file), activities[req.idx], id, Url(id))
            /\ file' = _save(data')
            /\ created' = created + 1
            /\ idx' = idx + 1
            /\ pc' = LoopPc
            /\ UNCHANGED user_story_id
       ELSE /\ data' = mark_user_story_processed(_load(data, file), req.key[1], req.key[2],
                                                 id, Url(id))
            /\ file' = _save(data')
            /\ user_story_id' = id
            /\ pc' = "child"
            /\ UNCHANGED <<created, idx>>
    /\ req' = NoReq
    /\ task_id' = NoId
    /\ calls' = <<>>
    /\ last' = Ended("returned", c)
    /\ UNCHANGED <<months, bucket, skipped, failed, order, runCfg>>

\* mutation: an error of create_task ends the whole batch
Raises_aborts_batch(b, c) ==
    /\ backend' = b
    /\ IF req.kind = "Task"
       THEN /\ failed' = failed \cup {req.idx}
            /\ idx' = idx + 1
            /\ pc' = "idle"
       ELSE /\ pc' = "child"
            /\ UNCHANGED <<failed, idx>>
    /\ req' = NoReq
    /\ task_id' = NoId
    /\ calls' = <<>>
    /\ last' = Ended("raised", c)
    /\ UNCHANGED <<file, data, months, bucket, user_story_id, created, skipped,
                   order, runCfg>>

\* mutation: an error of create_user_story ends the run
Raises_aborts_on_parent(b, c) ==
    /\ backend' = b
    /\ IF req.kind = "Task"
       THEN /\ failed' = failed \cup {req.idx}
            /\ idx' = idx + 1
            /\ pc' = LoopPc
       ELSE /\ pc' = "idle"
            /\ UNCHANGED <<failed, idx>>
    /\ req' = NoReq
    /\ task_id' = NoId
    /\ calls' = <<>>
    /\ last' = Ended("raised", c)
    /\ UNCHANGED <<file, data, months, bucket, user_story_id, created, skipped,
                   order, runCfg>>

\* mutation: a failed creation is recorded in the ledger without an id
Raises_marks(b, c) ==
    /\ backend' = b
    /\ IF req.kind = "Task"
       THEN /\ failed' = failed \cup {req.idx}
            /\ idx' = idx + 1
            /\ pc' = LoopPc
            /\ data' = mark_processed(_load(data, file), activities[req.idx], NoId, NoId)
       ELSE /\ pc' = "child"
            /\ data' = mark_user_story_processed(_load(data, file), req.key[1], req.key[2],
                                                 NoId, NoId)
            /\ UNCHANGED <<failed, idx>>
    /\ file' = _save(data')
    /\ req' = NoReq
    /\ task_id' = NoId
    /\ calls' = <<>>
    /\ last' = Ended("raised", c)
    /\ UNCHANGED <<months, bucket, user_story_id, created, skipped, order, runCfg>>

\* the call raises into the except clauses of its caller
\* (cli.py 166-170, 240-244, 282-286, 801-802)
Raises(b, c) ==
    /\ backend' = b
    /\ IF req.kind = "Task"
       THEN /\ failed' = failed \cup {req.idx}
            /\ idx' = idx + 1
            /\ pc' = LoopPc
       ELSE /\ pc' = "child"
            /\ UNCHANGED <<failed, idx>>
    /\ req' = NoReq
    /\ task_id' = NoId
    /\ calls' = <<>>
    /\ last' = Ended("raised", c)
    /\ UNCHANGED <<file, data, months, bucket, user_story_id, created, skipped,
                   order, runCfg>>

\* the call stays suspended at its next request
Awaits(next, id, b, c) ==
    /\ pc' = next
    /\ task_id' = id
    /\ backend' = b
    /\ calls' = c
    /\ UNCHANGED <<file, data, months, bucket, idx, user_story_id, created,
                   skipped, failed, req, order, last, runCfg>>

\* mutation: the response of the POST is not checked (no raise_for_status)
Post_unchecked(res) ==
    /\ pc = "post"
    /\ Inject("POST", res)
    /\ attempted' = attempted \cup {[kind |-> req.kind, key |-> req.key,
                                      parent_id |-> req.parent_id]}
    /\ LET c == Append(calls, Call("POST", res))
           b == backend \cup {Ticket(nextId, req)}
       IN  IF res # "error"
           THEN /\ nextId' = nextId + 1
                /\ IF req.state # NoState
                   THEN Awaits("patch_state", nextId, b, c)
                   ELSE IF req.kind = "Task" /\ req.parent_id # NoId
                   THEN Awaits("patch_parent", nextId, b, c)
                   ELSE Returns(nextId, b, c)
           ELSE /\ UNCHANGED nextId
                /\ Raises(backend, c)

\* the POST of create_task (109-117) and create_user_story (180-188)
Post(res) ==
    /\ pc = "post"
    /\ Inject("POST", res)
    /\ attempted' = attempted \cup {[kind |-> req.kind, key |-> req.key,
                                      parent_id |-> req.parent_id]}
    /\ LET c == Append(calls, Call("POST", res))
           b == backend \cup {Ticket(nextId, req)}
       IN  IF res = "ok"
           THEN /\ nextId' = nextId + 1
                /\ IF req.state # NoState
                   THEN Awaits("patch_state", nextId, b, c)
                   ELSE IF req.kind = "Task" /\ req.parent_id # NoId
                   THEN Awaits("patch_parent", nextId, b, c)
                   ELSE Returns(nextId, b, c)
           ELSE /\ UNCHANGED nextId
                /\ Raises(backend, c)

\* the state PATCH (125-130, 191-200): its response status is not looked at
PatchState(res) ==
    /\ pc = "patch_state"
    /\ Inject("PATCH_STATE", res)
    /\ LET c == Append(calls, Call("PATCH_STATE", res))
           b == IF res = "ok"
                THEN { IF t.id = task_id THEN [t EXCEPT !.state = req.state] ELSE t
                       : t \in backend }
                ELSE backend
       IN  IF res = "error"
           THEN Raises(backend, c)
           ELSE IF req.kind = "Task" /\ req.parent_id # NoId
           THEN Awaits("patch_parent", task_id, b, c)
           ELSE Returns(task_id, b, c)
    /\ UNCHANGED <<nextId, attempted>>

\* the parent link PATCH of create_task (133-146)
\* mutation: the link names the new ticket itself
PatchParent_links_self(res) ==
    /\ pc = "patch_parent"
    /\ Inject("PATCH_PARENT", res)
    /\ LET c == Append(calls, Call("PATCH_PARENT", res))
           b == IF res = "ok"
                THEN { IF t.id = task_id THEN [t EXCEPT !.parent = task_id] ELSE t
                       : t \in backend }
                ELSE backend
       IN  IF res = "error"
           THEN Raises(backend, c)
           ELSE Returns(task_id, b, c)
    /\ UNCHANGED <<nextId, attempted>>

PatchParent(res) ==
    /\ pc = "patch_parent"
    /\ Inject("PATCH_PARENT", res)
    /\ LET c == Append(calls, Call("PATCH_PARENT", res))
           b == IF res = "ok"
                THEN { IF t.id = task_id THEN [t EXCEPT !.parent = req.parent_id] ELSE t
                       : t \in backend }
                ELSE backend
       IN  IF res = "error"
           THEN Raises(backend, c)
           ELSE Returns(task_id, b, c)
    /\ UNCHANGED <<nextId, attempted>>

Modes == {"flat", "grouped", "import"}

Next ==
    \/ \E m \in Modes, d \in BOOLEAN, acts \in Inputs : StartRun(m, d, acts)
    \/ ProcessActivity
    \/ ImportActivity
    \/ ProcessMonth
    \/ ProcessChild
    \/ \E res \in Outcomes : Post(res)
    \/ \E res \in Outcomes : PatchState(res)
    \/ \E res \in Outcomes : PatchParent(res)

Spec == Init /\ [][Next]_vars

\* every backend call returns or fails, and the command is scheduled:
\* a run that can take a step takes one
RunStep ==
    \/ ProcessActivity
    \/ ImportActivity
    \/ ProcessMonth
    \/ ProcessChild
    \/ \E res \in Outcomes : Post(res)
    \/ \E res \in Outcomes : PatchState(res)
    \/ \E res \in Outcomes : PatchParent(res)

\* the lists of at most two activities
ShortInputs == { acts \in Inputs : Len(acts) <= 2 }

LiveNext ==
    \/ \E m \in Modes, d \in BOOLEAN, acts \in ShortInputs : StartRun(m, d, acts)
    \/ RunStep

SpecLive == Init /\ [][LiveNext]_vars /\ WF_vars(RunStep)

\* ---------------------------------- the pure functions of dedup.py alone
\* the characters a text is made of
Chars == {"R", "r", "e", "E_acute", "e_acute", "acute", " ", ":"}

Texts == UNION { [1..n -> Chars] : n \in 0..MaxText }

\* the characters of the titles that are compared in pairs
TitleChars == {"E_acute", "e", "acute", " ", ":"}

Titles == UNION { [1..n -> TitleChars] : n \in 0..MaxTitle }

\* an activity with a field that is not part of its identity
ActivityWith(t, s, d, h) == [title |-> t, source |-> s, date |-> d, hours |-> h]

PureInit ==
    /\ file = MissingFile
    /\ data = NotLoaded
    /\ ledger_op = NoOp
    /\ written = {}
    /\ us_marked = <<>>
    /\ InitOrch
    /\ llm = NoLlm
    /\ col = NoCol
    /\ cmd = NoCmd
    /\ \/ \E t \in Texts : pure = [fn |-> "text", x |-> t]
       \/ \E t1, t2 \in Titles, s1, s2 \in {"outlook", "git"},
             d2 \in {<<2026, 1, 15>>, <<2026, 1, 16>>}, h2 \in {1, 2} :
            pure = [fn |-> "activities",
                    x |-> ActivityWith(t1, s1, <<2026, 1, 15>>, 1),
                    y |-> ActivityWith(t2, s2, d2, h2)]

\* normalize_text(x), and normalize_text of the result
NormalizeText ==
    /\ pure.fn = "text"
    /\ pure' = [fn |-> "normalize_text", x |-> pure.x,
                 value |-> normalize_text(pure.x),
                 again |-> normalize_text(normalize_text(pure.x))]
    /\ UNCHANGED <<ledgerVars, runVars, llm, col, cmd>>

\* generate_hash of two activities, with the strings that are hashed
GenerateHash ==
    /\ pure.fn = "activities"
    /\ pure' = [fn |-> "generate_hash", x |-> pure.x, y |-> pure.y,
                 hx |-> Hash(pure.x), hy |-> Hash(pure.y),
                 cx |-> content(pure.x.source, pure.x.title, pure.x.date),
                 cy |-> content(pure.y.source, pure.y.title, pure.y.date)]
    /\ UNCHANGED <<ledgerVars, runVars, llm, col, cmd>>

PureNext ==
    \/ NormalizeText
    \/ GenerateHash

PureSpec == PureInit /\ [][PureNext]_vars

\* ------------------------------- the description enhancer (clients/llm.py)
\* max_retries of enhance_description
max_retries == 5

\* Activity.description = None
NoDescription == <<"None">>

Descriptions == { NoDescription, <<>>, <<"r", "a", "w">> }

\* activity.description or ""
description_or_empty(d) == IF d = NoDescription THEN <<>> ELSE d

\* str.strip()
RECURSIVE lstrip(_)
lstrip(t) == IF t # <<>> /\ isspace(Head(t)) THEN lstrip(Tail(t)) ELSE t

RECURSIVE rstrip(_)
rstrip(t) ==
    IF t # <<>> /\ isspace(t[Len(t)]) THEN rstrip(SubSeq(t, 1, Len(t) - 1)) ELSE t

strip(t) == rstrip(lstrip(t))

\* the content of a well-formed completion
Completions == { <<" ", "d", " ">>, <<"d">>, <<" ">> }

\* the retry-after header of a 429 response: none, a number of seconds, an
\* HTTP date the same number of seconds ahead, or a number that float()
\* reads as inf or nan
RetryAfter ==
    { [form |-> f, value |-> 7] : f \in {"absent", "seconds", "date", "inf"} }

NoHeader == [form |-> "absent", value |-> 7]

\* what a POST to /chat/completions can end in: 200 with a well-formed
\* body, 2xx with a body that is not JSON or has not the structure, 429,
\* another non-2xx status, no response at all
Responses ==
    { [kind |-> "ok", content |-> c, retry_after |-> NoHeader] : c \in Completions }
        \cup { [kind |-> k, content |-> <<>>, retry_after |-> NoHeader]
                 : k \in {"malformed", "status", "error"} }
        \cup { [kind |-> "429", content |-> <<>>, retry_after |-> h] : h \in RetryAfter }

\* asyncio.sleep(seconds); sleep(inf) and sleep(nan) never return
Duration(attempt, seconds) == [attempt |-> attempt, secs |-> seconds, forever |-> FALSE]

Forever(attempt) == [attempt |-> attempt, secs |-> 0, forever |-> TRUE]

\* float(response.headers.get("retry-after", 2 ** attempt)) raises ValueError
\* on a header that is not a number
float_raises(h) == h.form = "date"

\* the exception the body of the try raises on a response, "none" when it
\* returns or continues (llm.py 64-78)
Raised(r) ==
    CASE r.kind = "429" -> IF float_raises(r.retry_after) THEN "ValueError" ELSE "none"
      [] r.kind = "status" -> "HTTPStatusError"
      [] r.kind = "malformed" -> "KeyError"
      [] r.kind = "error" -> "ConnectError"
      [] OTHER -> "none"

\* mutation: only the status error is caught
handler_status_only(e) == IF e = "HTTPStatusError" THEN "fallback" ELSE "raise"

\* the except clauses (llm.py 80-86): a status error ends the call with the
\* fallback, every other exception is retried
handler(e) == IF e = "HTTPStatusError" THEN "fallback" ELSE "retry"

EnhancerInit ==
    /\ file = MissingFile
    /\ data = NotLoaded
    /\ ledger_op = NoOp
    /\ written = {}
    /\ us_marked = <<>>
    /\ InitOrch
    /\ pure = NoPure
    /\ col = NoCol
    /\ cmd = NoCmd
    /\ llm = NoLlm

\* enhance_description is called for an activity with description d
EnhanceDescription(d) ==
    /\ llm.pc = "idle"
    /\ llm' = [pc |-> "request", attempt |-> 0, requests |-> 0, sleeps |-> <<>>,
               got |-> <<>>, result |-> NoDescription, ended |-> "none",
               description |-> d]
    /\ UNCHANGED <<ledgerVars, runVars, pure, col, cmd>>

\* the call ends: with a text, or with an exception that leaves it
Ends(l, how, text) == [l EXCEPT !.pc = "done", !.ended = how, !.result = text]

\* the call suspends in asyncio.sleep
Sleeps(l, dur) == [l EXCEPT !.pc = "sleep", !.sleeps = Append(@, dur)]

\* the POST of attempt llm.attempt ends in r (llm.py 63-86)
Respond(r) ==
    /\ llm.pc = "request"
    /\ LET l == [llm EXCEPT !.requests = @ + 1, !.got = Append(@, r)]
           k == llm.attempt
           e == Raised(r)
       IN  llm' =
            IF e # "none"
            THEN CASE handler(e) = "fallback" ->
                        Ends(l, "returned", description_or_empty(l.description))
                   [] handler(e) = "retry" ->
                        IF k < max_retries - 1
                        THEN Sleeps(l, Duration(k, 2^k))
                        ELSE Ends(l, "returned", description_or_empty(l.description))
                   [] OTHER -> Ends(l, "raised", NoDescription)
            ELSE IF r.kind = "429"
            THEN Sleeps(l, CASE r.retry_after.form = "absent" -> Duration(k, 2^k)
                             [] r.retry_after.form = "inf" -> Forever(k)
                             [] OTHER -> Duration(k, r.retry_after.value))
            ELSE Ends(l, "returned", strip(r.content))
    /\ UNCHANGED <<ledgerVars, runVars, pure, col, cmd>>

\* asyncio.sleep returns and the loop goes on: the next attempt, or the
\* return after the loop (llm.py 74, 85, 88)
Wakes ==
    /\ llm.pc = "sleep"
    /\ ~llm.sleeps[Len(llm.sleeps)].forever
    /\ llm' = IF llm.attempt + 1 < max_retries
              THEN [llm EXCEPT !.pc = "request", !.attempt = @ + 1]
              ELSE Ends([llm EXCEPT !.attempt = @ + 1], "returned",
                        description_or_empty(llm.description))
    /\ UNCHANGED <<ledgerVars, runVars, pure, col, cmd>>

EnhancerNext ==
    \/ \E d \in Descriptions : EnhanceDescription(d)
    \/ \E r \in Responses : Respond(r)
    \/ Wakes

EnhancerSpec == EnhancerInit /\ [][EnhancerNext]_vars

\* every request is answered or times out (timeout=30.0), and a sleep that
\* can end does end
EnhancerLive ==
    /\ EnhancerSpec
    /\ WF_vars(\E r \in Responses : Respond(r))
    /\ WF_vars(Wakes)

\* ------------------------------------ the run command (cli.py 373-426)
\* the dates and the enabled sources of the command, in loop order
target_dates == << <<2026, 1, 5>>, <<2026, 2, 3>> >>

sources == <<"outlook", "git">>

\* the (date, source) pairs in the order of the two nested loops
Pairs ==
    [n \in 1..(Len(target_dates) * Len(sources)) |->
        [date |-> target_dates[((n - 1) \div Len(sources)) + 1],
         source |-> sources[((n - 1) % Len(sources)) + 1]]]

\* what source.collect(target_date) can return: activities of that source
\* on that date
CollectResults(p) ==
    { acts \in Inputs :
        \A i \in 1..Len(acts) : acts[i].source = p.source /\ acts[i].date = p.date }

RECURSIVE Flatten(_)
Flatten(ss) == IF ss = <<>> THEN <<>> ELSE Head(ss) \o Flatten(Tail(ss))

CollectInit ==
    /\ file = MissingFile
    /\ data = NotLoaded
    /\ ledger_op = NoOp
    /\ written = {}
    /\ us_marked = <<>>
    /\ InitOrch
    /\ pure = NoPure
    /\ llm = NoLlm
    /\ col = NoCol
    /\ cmd = NoCmd

\* run_async starts: dedup = DedupManager(), totals at 0
Run(m, d) ==
    /\ col.pc = "idle"
    /\ pc = "idle"
    /\ mode' = m
    /\ dry_run' = d
    /\ col' = [pc |-> "collect", k |-> 1, outcomes |-> <<>>, errors |-> <<>>,
               all_activities |-> <<>>, handed |-> <<>>, returned |-> 0,
               visited |-> <<>>, total_created |-> 0, total_skipped |-> 0]
    /\ UNCHANGED <<ledgerVars, data, backend, nextId, runs, pc, activities,
                   months, bucket, idx, user_story_id, created, skipped, failed,
                   req, task_id, calls, order, attempted, injected, last, faults,
                   hist, file0, prev, pure, llm, cmd>>

\* the call of process_activities or process_activities_with_user_stories on
\* acts, with the DedupManager of the command
Enter(acts) ==
    /\ activities' = acts
    /\ created' = 0
    /\ skipped' = 0
    /\ failed' = {}
    /\ calls' = <<>>
    /\ order' = <<>>
    /\ attempted' = {}
    /\ injected' = {}
    /\ last' = NoLast
    /\ user_story_id' = NoId
    /\ req' = NoReq
    /\ task_id' = NoId
    /\ idx' = 1
    /\ IF mode = "grouped"
       THEN /\ months' = sorted(MonthKeys(acts))
            /\ bucket' = <<>>
            /\ pc' = "month"
       ELSE /\ months' = <<>>
            /\ bucket' = [i \in 1..Len(acts) |-> i]
            /\ pc' = "loop"
    /\ UNCHANGED <<ledgerVars, data, backend, nextId, runs, mode, dry_run,
                   faults, hist, file0, prev, pure, llm, cmd>>

\* no call is made
Stay ==
    UNCHANGED <<ledgerVars, runVars, pure, llm, cmd>>

Outcome(raised, acts) == [raised |-> raised, acts |-> acts]

\* mutation: the exception of collect leaves run_async
CollectRaises_aborts ==
    /\ col.pc = "collect"
    /\ col.k <= Len(Pairs)
    /\ col' = [col EXCEPT !.pc = "done", !.outcomes = Append(@, Outcome(TRUE, <<>>))]
    /\ Stay

\* source.collect raises: the error is printed and the loop goes on
\* (cli.py 384-385, 425-426)
CollectRaises ==
    /\ col.pc = "collect"
    /\ col.k <= Len(Pairs)
    /\ col' = [col EXCEPT !.k = @ + 1, !.errors = Append(@, col.k),
                          !.outcomes = Append(@, Outcome(TRUE, <<>>))]
    /\ Stay

\* source.collect returns acts: grouped mode extends all_activities, flat
\* mode processes a non-empty list at once (cli.py 382-383, 409-421)
Collects(acts) ==
    /\ col.pc = "collect"
    /\ col.k <= Len(Pairs)
    /\ acts \in CollectResults(Pairs[col.k])
    /\ LET c == [col EXCEPT !.outcomes = Append(@, Outcome(FALSE, acts))]
       IN  IF mode = "grouped"
           THEN /\ col' = [c EXCEPT !.k = @ + 1, !.all_activities = @ \o acts]
                /\ Stay
           ELSE IF acts = <<>>
           THEN /\ col' = [c EXCEPT !.k = @ + 1]
                /\ Stay
           ELSE /\ col' = [c EXCEPT !.pc = "process", !.handed = Append(@, acts)]
                /\ Enter(acts)

\* the loops are over: flat mode is done, grouped mode processes what was
\* collected, if anything (cli.py 387-397)
Collected ==
    /\ col.pc = "collect"
    /\ col.k > Len(Pairs)
    /\ IF mode = "grouped" /\ col.all_activities # <<>>
       THEN /\ col' = [col EXCEPT !.pc = "process",
                                  !.handed = Append(@, col.all_activities)]
            /\ Enter(col.all_activities)
       ELSE /\ col' = [col EXCEPT !.pc = "done"]
            /\ Stay

\* the processing returned (created, skipped): the totals are updated and
\* the loop goes on (cli.py 398-399, 422-423)
Processed ==
    /\ col.pc = "process"
    /\ pc = "idle"
    /\ col' = [col EXCEPT !.pc = IF mode = "grouped" THEN "done" ELSE "collect",
                          !.k = IF mode = "grouped" THEN @ ELSE @ + 1,
                          !.returned = @ + 1,
                          !.visited = @ \o [j \in 1..Len(order) |-> activities[order[j]]],
                          !.total_created = @ + created,
                          !.total_skipped = @ + skipped]
    /\ Stay

CollectNext ==
    \/ \E m \in {"flat", "grouped"}, d \in BOOLEAN : Run(m, d)
    \/ CollectRaises
    \/ \E acts \in Inputs : Collects(acts)
    \/ Collected
    \/ Processed
    \/ ProcessActivity
    \/ ProcessMonth
    \/ ProcessChild
    \/ \E res \in Outcomes : Post(res)
    \/ \E res \in Outcomes : PatchState(res)
    \/ \E res \in Outcomes : PatchParent(res)

CollectSpec == CollectInit /\ [][CollectNext]_vars

\* ----------------------- the configuration of the run command (cli.py 319-428)
\* the collectors get_sources can build, in the order it appends them
SourceOrder == <<"outlook", "recurring", "git">>

\* what the command finds: AZURE_DEVOPS_PAT set or not, config.yaml valid,
\* absent, or lacking a required field, the sources it enables, the mode
Envs ==
    [pat : BOOLEAN, config : {"valid", "missing", "invalid"},
     enabled : SUBSET {"outlook", "recurring", "git"},
     mode : {"flat", "grouped"}, dry_run : BOOLEAN]

\* Settings.config: the first access loads and validates config.yaml
config_raises(env) == env.config # "valid"

\* get_sources: the enabled collectors; the Git collector needs the token
\* and is left out without it (cli.py 80-98)
get_sources(env) ==
    SelectSeq(SourceOrder,
              LAMBDA x : x \in env.enabled /\ (x = "git" => env.pat))

ConfigInit ==
    /\ file = MissingFile
    /\ data = NotLoaded
    /\ ledger_op = NoOp
    /\ written = {}
    /\ us_marked = <<>>
    /\ InitOrch
    /\ pure = NoPure
    /\ llm = NoLlm
    /\ col = NoCol
    /\ cmd = NoCmd

Started(env, srcs) ==
    [pc |-> "collect", env |-> env, srcs |-> srcs, k |-> 1, net |-> <<>>,
     all_activities |-> 0, errors |-> 0, ended |-> "none"]

Quits(c, how) == [c EXCEPT !.pc = "done", !.ended = how]

\* run, up to the first collect: get_settings builds Settings without
\* reading anything, get_sources reads the configuration, an empty list of
\* sources exits with 0 (cli.py 319-372)
RunCommand(env) ==
    /\ cmd.pc = "idle"
    /\ cmd' = IF config_raises(env)
              THEN Quits(Started(env, <<>>), "raised")
              ELSE IF get_sources(env) = <<>>
              THEN Quits(Started(env, <<>>), "exit0")
              ELSE Started(env, get_sources(env))
    /\ UNCHANGED <<ledgerVars, runVars, pure, llm, col>>

CollectCall(source) == [kind |-> "collect", source |-> source]

BackendCall == [kind |-> "backend", source |-> "none"]

\* source.collect for the date: it raises, or returns n activities
\* (cli.py 379-385, 405-413, 425-426)
CmdCollect(raises, n) ==
    /\ cmd.pc = "collect"
    /\ cmd.k <= Len(cmd.srcs)
    /\ LET c == [cmd EXCEPT !.net = Append(@, CollectCall(cmd.srcs[cmd.k]))]
       IN  cmd' =
            IF raises THEN [c EXCEPT !.k = @ + 1, !.errors = @ + 1]
            ELSE IF cmd.env.mode = "grouped"
            THEN [c EXCEPT !.k = @ + 1, !.all_activities = @ + n]
            ELSE IF n = 0 THEN [c EXCEPT !.k = @ + 1]
            ELSE [c EXCEPT !.pc = "process"]
    /\ UNCHANGED <<ledgerVars, runVars, pure, llm, col>>

\* process_activities / process_activities_with_user_stories: the client is
\* built from settings.azure_devops_pat, which raises ValueError without
\* the token; flat mode catches it with the collector's errors, grouped
\* mode lets it leave the command (cli.py 126-131, 205-210, 391-426)
CmdProcess ==
    /\ cmd.pc = "process"
    /\ cmd' =
        IF ~cmd.env.pat
        THEN IF cmd.env.mode = "flat"
             THEN [cmd EXCEPT !.pc = "collect", !.k = @ + 1, !.errors = @ + 1]
             ELSE Quits(cmd, "raised")
        ELSE LET c == IF cmd.env.dry_run THEN cmd
                      ELSE [cmd EXCEPT !.net = Append(@, BackendCall)]
             IN  IF cmd.env.mode = "flat"
                 THEN [c EXCEPT !.pc = "collect", !.k = @ + 1]
                 ELSE Quits(c, "summary")
    /\ UNCHANGED <<ledgerVars, runVars, pure, llm, col>>

\* the loops are over (cli.py 387-397, 428-437)
CmdCollected ==
    /\ cmd.pc = "collect"
    /\ cmd.k > Len(cmd.srcs)
    /\ cmd' = IF cmd.env.mode = "grouped" /\ cmd.all_activities > 0
              THEN [cmd EXCEPT !.pc = "process"]
              ELSE Quits(cmd, "summary")
    /\ UNCHANGED <<ledgerVars, runVars, pure, llm, col>>

ConfigNext ==
    \/ \E env \in Envs : RunCommand(env)
    \/ \E raises \in BOOLEAN, n \in 0..1 : CmdCollect(raises, n)
    \/ CmdProcess
    \/ CmdCollected

ConfigSpec == ConfigInit /\ [][ConfigNext]_vars

\* ----------------- AzureDevOpsClient.test_connection (azure_devops.py 43-82)
\* httpx.ConnectError, in the place of a status
ConnectError == -1

\* what the GET of the projects endpoint can end in: a status, or an
\* exception of the transport
ConnResponses == {200, 401, 403, 500, ConnectError}

ConnInit ==
    /\ file = MissingFile
    /\ data = NotLoaded
    /\ ledger_op = NoOp
    /\ written = {}
    /\ us_marked = <<>>
    /\ InitOrch
    /\ pure = NoPure
    /\ llm = NoLlm
    /\ col = NoCol
    /\ cmd = [pc |-> "ready", client |-> "none", log |-> <<>>]

\* test_connection is called: _get_client makes the HTTP client unless an
\* open one is there, and the GET is sent
TestConnection ==
    /\ cmd.pc = "ready"
    /\ Len(cmd.log) < MaxCalls
    /\ cmd' = [cmd EXCEPT !.pc = "get", !.client = "open"]
    /\ UNCHANGED <<ledgerVars, runVars, pure, llm, col>>

ConnResult(r, ended, value) == [response |-> r, ended |-> ended, value |-> value]

\* response.raise_for_status(), and the exception client.get itself raises
raise_for_status(r) == r = ConnectError \/ r \notin 200..299

\* the GET ends in r: an exception leaves test_connection, anything else
\* returns True (azure_devops.py 80-82)
ConnRespond(r) ==
    /\ cmd.pc = "get"
    /\ cmd' = [cmd EXCEPT !.pc = "ready",
                          !.log = Append(@, IF raise_for_status(r)
                                            THEN ConnResult(r, "raised", FALSE)
                                            ELSE ConnResult(r, "returned", TRUE))]
    /\ UNCHANGED <<ledgerVars, runVars, pure, llm, col>>

\* close(), as __aexit__ calls it
Close ==
    /\ cmd.pc = "ready"
    /\ cmd.client = "open"
    /\ cmd' = [cmd EXCEPT !.client = "closed"]
    /\ UNCHANGED <<ledgerVars, runVars, pure, llm, col>>

ConnNext ==
    \/ TestConnection
    \/ \E r \in ConnResponses : ConnRespond(r)
    \/ Close

ConnSpec == ConnInit /\ [][ConnNext]_vars

\* ------------------- the orchestrator with the enhancer (cli.py 138-142, 253-257)
\* Activity.description of the activities of the model
description_of(a) ==
    CASE a.source = "outlook" -> <<"r", "a", "w">>
      [] a.source = "recurring" -> <<>>
      [] OTHER -> NoDescription

\* the answers of the LLM endpoint that are told apart here: a completion,
\* an error status, 429 without retry-after, 429 with an infinite one
EResponses ==
    { r \in Responses :
        \/ r.kind = "ok" /\ r.content = <<" ", "d", " ">>
        \/ r.kind = "status"
        \/ r.kind = "429" /\ r.retry_after.form \in {"absent", "inf"} }

\* the lists the runs are made over
EInputs ==
    { <<Activity(<<"R", "e_acute">>, "outlook", <<2026, 1, 5>>),
        Activity(<<"b">>, "git", <<2026, 2, 3>>)>>,
      <<Activity(<<"B">>, "recurring", <<2025, 12, 9>>)>> }

EnhancedInit ==
    /\ file = MissingFile
    /\ data = NotLoaded
    /\ ledger_op = NoOp
    /\ written = {}
    /\ us_marked = <<>>
    /\ InitOrch
    /\ pure = NoPure
    /\ llm = NoLlm
    /\ col = NoCol
    /\ cmd = [pc |-> "enhancer", tag |-> <<0, 0>>, description |-> NoDescription,
              fell_back |-> FALSE]

\* mutation: the enhancer is called before the ledger is looked at
Pending_before_check ==
    /\ pc \in {"loop", "child"}
    /\ idx <= Len(bucket)

\* the loop is at an activity that is not in the ledger
\* (cli.py 133-138, 248-253)
Pending ==
    /\ pc \in {"loop", "child"}
    /\ idx <= Len(bucket)
    /\ ~is_processed(_load(data, file), activities[bucket[idx]])

\* the description of the activity the loop is at has been obtained
Described == cmd.tag = <<runs, bucket[idx]>>

\* description = await enhancer.enhance_description(activity, ...)
CallEnhancer ==
    /\ Pending
    /\ ~Described
    /\ EnhanceDescription(description_of(activities[bucket[idx]]))

\* the call returned: its result is the description of the TaskConfig
TakeDescription ==
    /\ llm.pc = "done"
    /\ cmd' = [cmd EXCEPT !.tag = <<runs, bucket[idx]>>,
                          !.description = llm.result,
                          !.fell_back = \A i \in 1..Len(llm.got) : llm.got[i].kind # "ok"]
    /\ llm' = NoLlm
    /\ UNCHANGED <<ledgerVars, runVars, pure, col>>

\* mutation: the loop does not wait for the enhancer
Ready_no_await == TRUE

\* the loop goes on to the TaskConfig only with the description
Ready == Pending => Described

EnhancedStep ==
    \/ Ready /\ ProcessActivity
    \/ ProcessMonth
    \/ Ready /\ ProcessChild
    \/ \E res \in Outcomes : Post(res)
    \/ \E res \in Outcomes : PatchState(res)
    \/ \E res \in Outcomes : PatchParent(res)

EnhancedNext ==
    \/ \E m \in {"flat", "grouped"}, d \in BOOLEAN, acts \in EInputs : StartRun(m, d, acts)
    \/ EnhancedStep
    \/ CallEnhancer
    \/ \E r \in EResponses : Respond(r)
    \/ Wakes
    \/ TakeDescription

EnhancedSpec == EnhancedInit /\ [][EnhancedNext]_vars

\* the command is scheduled, every request is answered or times out, and a
\* sleep that can end does end
EnhancedLive ==
    /\ EnhancedSpec
    /\ WF_vars(EnhancedStep)
    /\ WF_vars(CallEnhancer)
    /\ WF_vars(\E r \in EResponses : Respond(r))
    /\ WF_vars(Wakes)
    /\ WF_vars(TakeDescription)

\* ------------------------------------------ runs over a malformed ledger
\* a document that is a JSON object without the activity table, such as {}
NoTableFile == [kind |-> "json", processed |-> NoTable, user_stories |-> EmptyTable]

\* a file that is not a JSON document
InvalidFile == [kind |-> "partial", processed |-> EmptyTable, user_stories |-> EmptyTable]

MalformedInit ==
    /\ file \in {MissingFile, InvalidFile, NoTableFile}
    /\ data = NotLoaded
    /\ ledger_op = NoOp
    /\ written = {}
    /\ us_marked = <<>>
    /\ InitOrch
    /\ InitAux

\* the ledger access at the head of a loop raises (is_user_story_processed at
\* cli.py 221, is_processed at 133, 248, 776): nothing in the orchestrator
\* catches it, the exception leaves the function with the list unfinished
Propagates ==
    /\ \/ pc = "month" /\ months # <<>> /\ _load_raises(data, file)
       \/ pc \in {"loop", "import", "child"} /\ idx <= Len(bucket)
            /\ is_processed_raises(data, file)
    /\ pc' = "idle"
    /\ data' = IF _load_raises(data, file) THEN data ELSE _load(data, file)
    /\ UNCHANGED <<file, backend, nextId, months, bucket, idx, user_story_id,
                   created, skipped, failed, req, task_id, calls, order,
                   attempted, injected, last, faults, hist, runCfg>>

MalformedNext ==
    \/ Next
    \/ Propagates

MalformedSpec == MalformedInit /\ [][MalformedNext]_vars

TypeOK ==
    /\ pc \in {"idle", "loop", "import", "month", "child", "post", "patch_state", "patch_parent"}
    /\ runs \in 0..MaxRuns
    /\ created \in 0..MaxLen
    /\ skipped \in 0..MaxLen


\* ---------------------------------------------------------------- claims
Done == pc = "idle" /\ runs > 0

N == Len(activities)

Ledger == Stored(file)

Ledger0 == Stored(file0)

CallPcs == {"post", "patch_state", "patch_parent"}

DistinctHashes ==
    \A i, j \in 1..N : Hash(activities[i]) = Hash(activities[j]) => i = j

\* a finished flat run, not a rehearsal, in which every backend call succeeded
FlatRealClean == Done /\ mode = "flat" /\ ~dry_run /\ injected = {}

FirstFlatRun == FlatRealClean /\ DOMAIN Ledger0.processed = {}

SecondFlatRun ==
    /\ FlatRealClean
    /\ prev.mode = "flat" /\ ~prev.dry_run /\ prev.clean /\ prev.fresh

\* C1 as stated: for ANY list of N activities the first flat run from an empty
\* ledger returns created = N, skipped = 0, and the second run over the same
\* list returns created = 0, skipped = N with no creation call.
C1_AsStated ==
    /\ FirstFlatRun => created = N /\ skipped = 0
    /\ SecondFlatRun => created = 0 /\ skipped = N /\ attempted = {}

\* C1 (amended): for a list of N activities with pairwise distinct
\* fingerprints, the first flat non-rehearsal run from an empty ledger with an
\* always succeeding backend returns created = N and skipped = 0; a second run
\* over the same list (whatever the list) returns created = 0 and skipped = N
\* and issues no backend creation call.
C1_IdempotentFlatRun ==
    /\ FirstFlatRun /\ DistinctHashes => created = N /\ skipped = 0
    /\ SecondFlatRun => created = 0 /\ skipped = N /\ attempted = {}

C1_Witness ==
    /\ SecondFlatRun /\ DistinctHashes
    /\ N >= 2 /\ prev.created = N /\ skipped = N

SameItem(t1, t2) == t1.kind = t2.kind /\ t1.key = t2.key

\* C2 as stated: the backend never holds two leaf tickets created for the same
\* fingerprint, nor two parent tickets created for the same (year, month),
\* whatever calls fail.
C2_AsStated ==
    \A t1, t2 \in backend : SameItem(t1, t2) => t1 = t2

\* C2 (amended): the backend never holds two leaf tickets for the same
\* fingerprint, nor two parent tickets for the same (year, month), whose
\* creation calls both returned to the orchestrator; only a ticket whose
\* creation call raised after its POST can be duplicated by a later run.
C2_NoDuplicateOfRecorded ==
    \A t1, t2 \in backend :
        SameItem(t1, t2) /\ t1.returned /\ t2.returned => t1 = t2

C2_Witness ==
    /\ runs >= 2 /\ faults > 0
    /\ \E t1, t2 \in backend :
        SameItem(t1, t2) /\ t1 # t2 /\ ~t1.returned /\ t2.returned


\* a finished run that was not a rehearsal
RealDone == Done /\ ~dry_run

\* every activity of the list was visited once, flat: in list order, grouped:
\* months ascending and list order within a month
AllVisitedInOrder ==
    /\ Len(order) = N
    /\ { order[k] : k \in 1..Len(order) } = 1..N
    /\ \A k, l \in 1..Len(order) :
        k < l =>
            IF mode = "grouped"
            THEN \/ MonthLess(MonthOf(activities[order[k]]), MonthOf(activities[order[l]]))
                 \/ /\ MonthOf(activities[order[k]]) = MonthOf(activities[order[l]])
                    /\ order[k] < order[l]
            ELSE order[k] < order[l]

\* the activities whose create_task call raised in this run
RaisedIdx == { f.idx : f \in { g \in injected : g.kind = "Task" /\ Raising(g) } }

Marked(i) == Hash(activities[i]) \in DOMAIN Ledger.processed

\* the ledger entry of activity i names a ticket the backend returned for it
MarkedWithTicket(i) ==
    /\ Marked(i)
    /\ \E t \in backend :
        /\ t.kind = "Task" /\ t.key = Hash(activities[i]) /\ t.returned
        /\ Ledger.processed[Hash(activities[i])].task_id = t.id

FlatOrGrouped == mode \in {"flat", "grouped"}

Isolation ==
    /\ AllVisitedInOrder
    /\ failed = RaisedIdx
    /\ \A i \in (1..N) \ failed : MarkedWithTicket(i)

\* C3 as stated: when create_task raises for some activities of a batch, all
\* others are still attempted in order and marked on success, and the failed
\* ones are the only ones reported and are left unmarked.
C3_AsStated ==
    RealDone /\ FlatOrGrouped => Isolation /\ \A i \in failed : ~Marked(i)

\* C3 (amended): in flat and grouped mode, when create_task raises for
\* activity i, every other activity of the batch is still attempted in order,
\* each one whose creation succeeds is marked in the ledger, the activities
\* reported as failed are exactly those whose call raised, and a failed
\* activity is left unmarked unless an activity with the same fingerprint
\* later in the same batch is created (whose entry then covers it).
C3_PartialFailureIsolation ==
    RealDone /\ FlatOrGrouped =>
        /\ Isolation
        /\ \A i \in failed :
            Marked(i) =>
                \E j \in (1..N) \ failed :
                    /\ j > i
                    /\ Hash(activities[j]) = Hash(activities[i])
                    /\ Ledger.processed[Hash(activities[i])].title = activities[j].title

C3_Witness ==
    /\ RealDone /\ mode = "grouped"
    /\ N >= 3 /\ failed = {2} /\ created = 2
    /\ \A i \in failed : ~Marked(i)

KeyInLedger(k, l) ==
    IF k.kind = "Task"
    THEN k.key \in DOMAIN l.processed
    ELSE generate_user_story_hash(k.key[1], k.key[2]) \in DOMAIN l.user_stories

Attempted(k) == \E a \in attempted : a.kind = k.kind /\ a.key = k.key

\* a creation that raised left the file and the cached tables as they were
\* before the attempt, without the key
FailureLeavesLedger ==
    last.result = "raised" =>
        /\ file = last.file_before
        /\ data.processed = Stored(last.file_before).processed
        /\ data.user_stories = Stored(last.file_before).user_stories
        /\ ~KeyInLedger(last, Ledger)

\* a real run that follows a real run in the same mode over the same input
Rerun == RealDone /\ ~prev.dry_run /\ prev.mode = mode

\* C4 as stated: a failed creation (leaf or monthly parent) leaves the ledger
\* as it was, the key unwritten, so the next run over the same input attempts
\* that creation again.
C4_AsStated ==
    /\ FailureLeavesLedger
    /\ Rerun => \A k \in prev.raised : Attempted(k)

\* C4 (amended): a failed ticket creation (leaf or monthly parent) leaves the
\* ledger exactly as it was before the attempt, the key unwritten; the next
\* run over the same input attempts that creation again, unless the
\* fingerprint was written meanwhile by the creation of another activity of
\* the batch with the same fingerprint.
C4_FailureNotRecorded ==
    /\ FailureLeavesLedger
    /\ Rerun => \A k \in prev.raised : Attempted(k) \/ KeyInLedger(k, Ledger0)

C4_Witness ==
    /\ Rerun /\ prev.raised # {}
    /\ \A k \in prev.raised : Attempted(k) /\ KeyInLedger(k, Ledger)

\* C5: at the end of a non-rehearsal run over N activities, created + skipped
\* + number of failed activities = N (so a failed one is in neither count),
\* and created is the number of activity entries the run added to the ledger.
C5_CountingInvariant ==
    RealDone =>
        /\ created + skipped + Cardinality(failed) = N
        /\ created = Cardinality(DOMAIN Ledger.processed)
                        - Cardinality(DOMAIN Ledger0.processed)

C5_Witness ==
    RealDone /\ created > 0 /\ skipped > 0 /\ failed # {}


UsKey(mk) == generate_user_story_hash(mk[1], mk[2])

\* a creation call for a leaf / for a monthly parent is in flight
ChildCall == mode = "grouped" /\ pc \in CallPcs /\ req.kind = "Task"
ParentCall == mode = "grouped" /\ pc \in CallPcs /\ req.kind = "US"

ReqMonth == MonthOf(activities[req.idx])

\* the parent ensure step of month mk was completed in this run: by a ledger
\* hit or by a creation call that has ended
Ensured(mk) ==
    \/ UsKey(mk) \in DOMAIN Ledger0.user_stories
    \/ /\ [kind |-> "US", key |-> mk, parent_id |-> NoId] \in attempted
       /\ ~(ParentCall /\ req.key = mk)

\* C6: in a grouped non-rehearsal run, whenever a child creation call of a
\* month is in flight that month's parent ensure step has completed
\* (successfully or not), and while a parent creation call is in flight no
\* child of that month has been visited or submitted.
C6_GroupedOrdering ==
    /\ ChildCall => ReqMonth = Head(months) /\ Ensured(ReqMonth)
    /\ ParentCall =>
        /\ req.key = Head(months)
        /\ \A k \in 1..Len(order) : MonthOf(activities[order[k]]) # req.key

C6_Witness ==
    /\ ChildCall /\ pc = "post"
    /\ \E f \in injected : f.kind = "US" /\ f.key = ReqMonth /\ Raising(f)

\* C7: in a grouped run, a month whose key is in the ledger at the start of
\* the run gets no parent creation call, and every child creation request of
\* that month carries the stored parent id.
C7_ParentReuse ==
    mode = "grouped" =>
        /\ \A a \in attempted : a.kind = "US" => UsKey(a.key) \notin DOMAIN Ledger0.user_stories
        /\ ChildCall /\ UsKey(ReqMonth) \in DOMAIN Ledger0.user_stories =>
            /\ req.parent_id = Ledger0.user_stories[UsKey(ReqMonth)].user_story_id
            /\ req.parent_id # NoId

C7_Witness ==
    /\ ChildCall /\ pc = "patch_parent"
    /\ UsKey(ReqMonth) \in DOMAIN Ledger0.user_stories
    /\ \E t \in backend : t.kind = "US" /\ t.id = req.parent_id /\ t.key = ReqMonth

\* the months whose parent creation raised in this run
FailedMonths == { f.key : f \in { g \in injected : g.kind = "US" /\ Raising(g) } }

ChildrenOf(mk) == { i \in 1..N : MonthOf(activities[i]) = mk }

SubmittedWith(i, parent) ==
    [kind |-> "Task", key |-> Hash(activities[i]), parent_id |-> parent] \in attempted

\* C8: in a grouped non-rehearsal run, when the parent creation of month M
\* raises, M is not marked in the ledger, the run goes on to visit every
\* activity, M's children that are not ledger hits are submitted with no
\* parent id, and the other months get their parent and their children are
\* submitted with it.
C8_DegradedParentFailure ==
    mode = "grouped" /\ ~dry_run =>
        /\ \A mk \in FailedMonths :
            /\ UsKey(mk) \notin DOMAIN Ledger.user_stories
            /\ data.loaded => UsKey(mk) \notin DOMAIN data.user_stories
            /\ ChildCall /\ ReqMonth = mk => req.parent_id = NoId
        /\ Done =>
            /\ AllVisitedInOrder
            /\ \A mk \in FailedMonths : \A i \in ChildrenOf(mk) :
                \/ SubmittedWith(i, NoId)
                \/ \E j \in ChildrenOf(mk) :
                    /\ Hash(activities[j]) = Hash(activities[i])
                    /\ \/ Hash(activities[j]) \in DOMAIN Ledger0.processed
                       \/ j < i /\ j \notin failed /\ SubmittedWith(j, NoId)
            /\ \A mk \in { MonthOf(activities[i]) : i \in 1..N } \ FailedMonths :
                /\ UsKey(mk) \in DOMAIN Ledger.user_stories
                /\ \A i \in ChildrenOf(mk) :
                    SubmittedWith(i, get_user_story_id(Ledger, mk[1], mk[2])) \/ Marked(i)

C8_Witness ==
    /\ Done /\ mode = "grouped" /\ ~dry_run
    /\ \E mk \in FailedMonths :
        /\ \E i \in ChildrenOf(mk) : SubmittedWith(i, NoId) /\ Marked(i)
        /\ \E m2 \in { MonthOf(activities[i]) : i \in 1..N } :
            /\ MonthLess(mk, m2)
            /\ \E i \in ChildrenOf(m2) :
                /\ Marked(i)
                /\ get_user_story_id(Ledger, m2[1], m2[2]) # NoId
                /\ SubmittedWith(i, get_user_story_id(Ledger, m2[1], m2[2]))

\* the ledger entries of leaves, with the ticket each names and the parent
\* the ledger records for the leaf's month
LeafKeys == DOMAIN Ledger.processed
LeafMonth(h) == <<h[3] \div 10000, (h[3] \div 100) % 100>>
LeafTicket(h) == CHOOSE t \in backend : t.id = Ledger.processed[h].task_id
HasParent(h) == UsKey(LeafMonth(h)) \in DOMAIN Ledger.user_stories
ParentOf(h) == Ledger.user_stories[UsKey(LeafMonth(h))].user_story_id

\* C9 as stated, taken over runs in which every PATCH was answered 2xx or
\* failed in transport: after grouped non-rehearsal runs, every ledger-recorded
\* leaf of month M is linked to the ledger-recorded parent of M.
C9_AsStated ==
    Done /\ hist.only_grouped /\ ~hist.silent =>
        \A h \in LeafKeys : HasParent(h) => LeafTicket(h).parent = ParentOf(h)

\* C9 (amended): after any sequence of grouped non-rehearsal runs, every
\* ledger-recorded leaf ticket of month M names an existing ticket that is
\* either unlinked or linked to the ledger-recorded parent of M, never to
\* another ticket; it is linked when M's parent was created before the leaf
\* and every PATCH was answered 2xx.
C9_ChildThreading ==
    hist.only_grouped =>
        \A h \in LeafKeys :
            /\ \E t \in backend : t.id = Ledger.processed[h].task_id /\ t.kind = "Task"
            /\ ~HasParent(h) => LeafTicket(h).parent = NoId
            /\ HasParent(h) =>
                /\ LeafTicket(h).parent \in {NoId, ParentOf(h)}
                /\ ~hist.silent /\ ParentOf(h) < LeafTicket(h).id =>
                    LeafTicket(h).parent = ParentOf(h)

C9_Witness ==
    /\ Done /\ hist.only_grouped /\ ~hist.silent /\ runs >= 2
    /\ \E h \in LeafKeys : HasParent(h) /\ LeafTicket(h).parent = ParentOf(h)
    /\ \E h \in LeafKeys : HasParent(h) /\ LeafTicket(h).parent = NoId

Hits == { i \in 1..N : Hash(activities[i]) \in DOMAIN Ledger0.processed }

\* C10: a rehearsal run makes no backend call, leaves the ledger file and the
\* cached tables as they were at its start, counts every activity in the
\* ledger as skipped and every other as created, and a rehearsal that follows
\* a rehearsal reports the same counts.
C10_Rehearsal ==
    dry_run =>
        /\ pc \notin CallPcs
        /\ attempted = {} /\ injected = {} /\ req = NoReq
        /\ file = file0
        /\ data.loaded =>
            /\ data.processed = Ledger0.processed
            /\ data.user_stories = Ledger0.user_stories
        /\ Done =>
            /\ skipped = Cardinality(Hits)
            /\ created = N - Cardinality(Hits)
            /\ prev.dry_run => created = prev.created /\ skipped = prev.skipped

C10_Witness ==
    /\ Done /\ dry_run /\ mode = "grouped"
    /\ created > 0 /\ skipped > 0
    /\ DOMAIN Ledger0.user_stories # {}


\* ------------------------------------------- the creation protocol (C11-C13)
\* a PATCH among the requests c was not answered 2xx
PatchFailed(c) ==
    \E k \in 1..Len(c) : c[k].op \in {"PATCH_STATE", "PATCH_PARENT"} /\ c[k].res # "ok"

\* C11: if the state PATCH or the parent-link PATCH of create_task fails after
\* the POST succeeded, by a non-2xx response or by a transport error, the
\* creation is reported as failed and the ledger is not written.
C11_PatchFailureReported ==
    last.kind = "Task" /\ PatchFailed(last.calls) =>
        /\ last.result = "raised"
        /\ file = last.file_before
        /\ ~KeyInLedger(last, Ledger)

Ops(c) == [k \in 1..Len(c) |-> c[k].op]

\* the requests create_task issues for a requested state and parent id
Expected(state, parent) ==
    <<"POST">> \o (IF state # NoState THEN <<"PATCH_STATE">> ELSE <<>>)
               \o (IF parent # NoId THEN <<"PATCH_PARENT">> ELSE <<>>)

IsPrefix(s, t) == Len(s) <= Len(t) /\ \A k \in 1..Len(s) : s[k] = t[k]

WellFormed(c, state, parent) ==
    /\ IsPrefix(Ops(c), Expected(state, parent))
    /\ \A k \in 1..Len(c) :
        /\ k > 1 => c[1].res = "ok" /\ c[k - 1].res # "error"
        /\ c[k].op = "POST" =>
            /\ "/fields/System.State" \notin c[k].paths
            /\ "/relations/-" \notin c[k].paths
            /\ c[k].rel = "none" /\ c[k].url = NoUrl
        /\ c[k].op = "PATCH_STATE" =>
            /\ c[k].paths = {"/fields/System.State"} /\ c[k].state = state
            /\ \A j \in 1..k : c[j].op # "PATCH_PARENT"
        /\ c[k].op = "PATCH_PARENT" =>
            /\ c[k].paths = {"/relations/-"}
            /\ c[k].rel = "System.LinkTypes.Hierarchy-Reverse"
            /\ c[k].url = <<"_apis/wit/workitems", parent>>

\* C12: create_task issues exactly one POST first, whose body has no state
\* operation and no parent relation; then, iff a state was requested, one
\* PATCH that sets the state; then, iff a parent id was requested, one PATCH
\* that adds a Hierarchy-Reverse relation to _apis/wit/workitems/<parent id>;
\* the state PATCH never follows the parent PATCH and no PATCH is issued
\* before the POST has succeeded.
C12_WriteSequence ==
    /\ pc \in CallPcs /\ req.kind = "Task" =>
        WellFormed(calls, req.state, req.parent_id)
    /\ last.kind = "Task" =>
        /\ last.calls # <<>>
        /\ WellFormed(last.calls, last.state, last.parent_id)
        /\ last.result = "returned" =>
            Ops(last.calls) = Expected(last.state, last.parent_id)

C12_Witness ==
    /\ last.kind = "Task" /\ last.result = "returned"
    /\ Ops(last.calls) = <<"POST", "PATCH_STATE", "PATCH_PARENT">>
    /\ \E t \in backend : t.id = last.parent_id /\ t.kind = "US"

PostFailed == last.calls # <<>> /\ last.calls[1].res # "ok"

\* a failed POST ends the call: no PATCH, no created item, nothing recorded
PostFailureAborts ==
    /\ last.result = "raised"
    /\ Len(last.calls) = 1
    /\ file = last.file_before

Tids == 1..MaxTid

\* the ids the backend may have given to the parents: one more than to tasks
UsIds == 1..(MaxTid + 1)

Hashes == { Hash(a) : a \in Universe }

\* the months whose parent the ledger is asked to record
Months == { <<2026, 1>>, <<2026, 2>> }

EmptyFile == [kind |-> "empty", processed |-> EmptyTable, user_stories |-> EmptyTable]

\* a file written before the monthly table existed: {"processed": {...}}
OldFile(a, id) ==
    [kind |-> "old", processed |-> mark_processed(NotLoaded, a, id, Url(id)).processed,
     user_stories |-> EmptyTable]

\* what is left of the file when the process dies after open(path, "w") has
\* truncated it: nothing, or the beginning of the document
PartialFile == [kind |-> "partial", processed |-> EmptyTable, user_stories |-> EmptyTable]

StoredActivities(f) ==
    { Activity(f.processed[h].title, f.processed[h].source, f.processed[h].date)
        : h \in DOMAIN f.processed }

\* the call that has just been made, with the file and the tables it found
LedgerOp(name, arg, value, d) ==
    [name |-> name, arg |-> arg, value |-> value,
     before |-> [file |-> file, processed |-> d.processed,
                 user_stories |-> d.user_stories]]

orchVars == <<runVars, aux>>

LedgerInit ==
    /\ file \in {MissingFile, EmptyFile}
                \cup { OldFile(a, id) : a \in Universe, id \in {NoId} \cup Tids }
    /\ data = NotLoaded
    /\ ledger_op = NoOp
    /\ written = StoredActivities(file)
    /\ us_marked = <<>>
    /\ InitOrch
    /\ InitAux

IsProcessed(a) ==
    /\ ~_load_raises(data, file)
    /\ LET d == _load(data, file)
       IN  /\ data' = d
           /\ ledger_op' = LedgerOp("is_processed", a, is_processed(d, a), d)
    /\ UNCHANGED <<file, written, us_marked, orchVars>>

MarkProcessed(a, id) ==
    /\ ~_load_raises(data, file)
    /\ LET d == _load(data, file)
       IN  /\ data' = mark_processed(d, a, id, IF id = NoId THEN NoUrl ELSE Url(id))
           /\ file' = _save(data')
           /\ ledger_op' = LedgerOp("mark_processed", [activity |-> a, task_id |-> id],
                                    Hash(a), d)
    /\ written' = written \cup {a}
    /\ UNCHANGED <<us_marked, orchVars>>

MarkUserStoryProcessed(mk, id) ==
    /\ ~_load_raises(data, file)
    /\ LET d == _load(data, file)
       IN  /\ data' = mark_user_story_processed(d, mk[1], mk[2], id, Url(id))
           /\ file' = _save(data')
           /\ ledger_op' = LedgerOp("mark_user_story_processed", mk, id, d)
    /\ us_marked' = Put(us_marked, mk, id)
    /\ UNCHANGED <<written, orchVars>>

IsUserStoryProcessed(mk) ==
    /\ ~_load_raises(data, file)
    /\ LET d == _load(data, file)
       IN  /\ data' = d
           /\ ledger_op' = LedgerOp("is_user_story_processed", mk,
                                    is_user_story_processed(d, mk[1], mk[2]), d)
    /\ UNCHANGED <<file, written, us_marked, orchVars>>

GetUserStoryId(mk) ==
    /\ ~_load_raises(data, file)
    /\ LET d == _load(data, file)
       IN  /\ data' = d
           /\ ledger_op' = LedgerOp("get_user_story_id", mk,
                                    get_user_story_id(d, mk[1], mk[2]), d)
    /\ UNCHANGED <<file, written, us_marked, orchVars>>

Remove(h) ==
    /\ ~_load_raises(data, file)
    /\ LET d == _load(data, file)
       IN  IF h \in DOMAIN d.processed
           THEN /\ data' = remove(d, h)
                /\ file' = _save(data')
                /\ written' = { a \in written : Hash(a) # h }
                /\ ledger_op' = LedgerOp("remove", h, TRUE, d)
           ELSE /\ data' = d
                /\ ledger_op' = LedgerOp("remove", h, FALSE, d)
                /\ UNCHANGED <<file, written>>
    /\ UNCHANGED <<us_marked, orchVars>>

\* the loop of remove_by_task_id deletes the first entry that matches and
\* returns; which entry comes first is the order of the dict
RemoveByTaskId(t) ==
    /\ ~_load_raises(data, file)
    /\ LET d == _load(data, file)
           found == { h \in DOMAIN d.processed : task_id_matches(d.processed[h], t) }
       IN  IF found # {}
           THEN \E h \in found :
                /\ data' = remove(d, h)
                /\ file' = _save(data')
                /\ written' = { a \in written : Hash(a) # h }
                /\ ledger_op' = LedgerOp("remove_by_task_id", t, TRUE, d)
           ELSE /\ data' = d
                /\ ledger_op' = LedgerOp("remove_by_task_id", t, FALSE, d)
                /\ UNCHANGED <<file, written>>
    /\ UNCHANGED <<us_marked, orchVars>>

Clear ==
    /\ ~_load_raises(data, file)
    /\ LET d == _load(data, file)
       IN  /\ data' = clear(d)
           /\ file' = _save(data')
           /\ ledger_op' = LedgerOp("clear", NoId, Cardinality(DOMAIN d.processed), d)
    /\ written' = {}
    /\ UNCHANGED <<us_marked, orchVars>>

\* the process ends and the next one constructs its DedupManager
NewProcess ==
    /\ data.loaded
    /\ data' = NotLoaded
    /\ ledger_op' = [name |-> "new"]
    /\ UNCHANGED <<file, written, us_marked, orchVars>>

LedgerNext ==
    \/ \E a \in Universe : IsProcessed(a)
    \/ \E a \in Universe, id \in {NoId} \cup Tids : MarkProcessed(a, id)
    \/ \E mk \in Months, id \in Tids : MarkUserStoryProcessed(mk, id)
    \/ \E h \in Hashes : Remove(h)
    \/ \E t \in Tids : RemoveByTaskId(t)
    \/ Clear
    \/ NewProcess

LedgerSpec == LedgerInit /\ [][LedgerNext]_vars

\* the monthly table under every method of the manager: the parents of the
\* months get different ids, activities are marked without a ticket id
MonthlyNext ==
    \/ \E mk \in Months, id \in UsIds : MarkUserStoryProcessed(mk, id)
    \/ \E mk \in Months : IsUserStoryProcessed(mk)
    \/ \E mk \in Months : GetUserStoryId(mk)
    \/ \E a \in Universe : IsProcessed(a)
    \/ \E a \in Universe : MarkProcessed(a, NoId)
    \/ \E h \in Hashes : Remove(h)
    \/ \E t \in Tids : RemoveByTaskId(t)
    \/ Clear
    \/ NewProcess

MonthlySpec == LedgerInit /\ [][MonthlyNext]_vars


\* the process is killed inside the _save of mark_processed, after
\* open(path, "w") has truncated the file and before json.dump has finished
CrashInSave(a, id) ==
    /\ ~_load_raises(data, file)
    /\ file' \in {EmptyFile, PartialFile}
    /\ data' = NotLoaded
    /\ ledger_op' = LedgerOp("crash", [activity |-> a, task_id |-> id], "killed",
                             _load(data, file))
    /\ UNCHANGED <<written, us_marked, orchVars>>

\* the first method call of a process finds a file json.load cannot read
LoadRaises ==
    /\ _load_raises(data, file)
    /\ ledger_op' = [name |-> "raise", value |-> "JSONDecodeError"]
    /\ UNCHANGED <<file, data, written, us_marked, orchVars>>

CrashNext ==
    \/ LedgerNext
    \/ \E a \in Universe, id \in {NoId} \cup Tids : CrashInSave(a, id)
    \/ LoadRaises

CrashSpec == LedgerInit /\ [][CrashNext]_vars

\* ------------------------------------ the delete command (cli.py 813-866)
\* ids of the parent tickets; the backend never gives one id to two tickets
ParentIds == UsIds \ Tids

\* the ids the ledger references, in either table
Referenced(f) ==
    { f.processed[h].task_id : h \in DOMAIN f.processed }
        \cup { f.user_stories[h].user_story_id : h \in DOMAIN f.user_stories }

DeleteInit ==
    /\ file = MissingFile
    /\ data = NotLoaded
    /\ ledger_op = NoOp
    /\ written = {}
    /\ us_marked = <<>>
    /\ InitOrch
    /\ pure = NoPure
    /\ llm = NoLlm
    /\ col = NoCol
    /\ cmd = [pc |-> "done", ids |-> <<>>, k |-> 1, results |-> <<>>, deleted |-> {}]

\* a run has created a ticket for a and recorded it
Recorded(a, id) ==
    /\ cmd.pc = "done"
    /\ id \notin Referenced(file) \cup cmd.deleted
    /\ MarkProcessed(a, id)

\* a run has created the parent of month mk and recorded it
RecordedParent(mk, id) ==
    /\ cmd.pc = "done"
    /\ id \notin Referenced(file) \cup cmd.deleted
    /\ MarkUserStoryProcessed(mk, id)

\* delete: the ids are given, the configuration is read, a DedupManager is
\* made (cli.py 828-848)
Delete(ids) ==
    /\ cmd.pc = "done"
    /\ cmd' = [cmd EXCEPT !.pc = "delete", !.ids = ids, !.k = 1, !.results = <<>>]
    /\ data' = NotLoaded
    /\ UNCHANGED <<file, ledger_op, written, us_marked, runVars, pure, llm, col>>

DeleteResult(id, ok, before, after) ==
    [id |-> id, ok |-> ok, again |-> id \in cmd.deleted,
     before |-> before, after |-> after]

\* one turn of the loop: client.delete_work_item moves the ticket to the
\* recycle bin or raises; after it returned, remove_by_task_id
\* (cli.py 857-864, dedup.py 236-251)
DeleteWorkItem(res) ==
    /\ cmd.pc = "delete"
    /\ cmd.k <= Len(cmd.ids)
    /\ LET t == cmd.ids[cmd.k]
           d == _load(data, file)
           found == { h \in DOMAIN d.processed : task_id_matches(d.processed[h], t) }
       IN  IF res = "ok"
           THEN /\ IF found # {}
                   THEN \E h \in found :
                        /\ data' = remove(d, h)
                        /\ file' = _save(data')
                        /\ written' = { a \in written : Hash(a) # h }
                   ELSE /\ data' = d
                        /\ UNCHANGED <<file, written>>
                /\ cmd' = [cmd EXCEPT !.k = @ + 1, !.deleted = @ \cup {t},
                                      !.results = Append(@, DeleteResult(t, TRUE, file, file'))]
           ELSE /\ cmd' = [cmd EXCEPT !.k = @ + 1,
                                      !.results = Append(@, DeleteResult(t, FALSE, file, file))]
                /\ UNCHANGED <<file, data, written>>
    /\ UNCHANGED <<ledger_op, us_marked, runVars, pure, llm, col>>

\* the loop is over
Deleted ==
    /\ cmd.pc = "delete"
    /\ cmd.k > Len(cmd.ids)
    /\ cmd' = [cmd EXCEPT !.pc = "done"]
    /\ UNCHANGED <<ledgerVars, runVars, pure, llm, col>>

DeleteArgs == { ids \in UNION { [1..n -> UsIds] : n \in 1..2 } : TRUE }

DeleteNext ==
    \/ \E a \in Universe, id \in Tids : Recorded(a, id)
    \/ \E mk \in Months, id \in ParentIds : RecordedParent(mk, id)
    \/ \E ids \in DeleteArgs : Delete(ids)
    \/ \E res \in Outcomes : DeleteWorkItem(res)
    \/ Deleted

DeleteSpec == DeleteInit /\ [][DeleteNext]_vars

\* ------------------------------- two DedupManager instances on one file
\* two activities of the batch, with different fingerprints
TwoActivities == { a \in Universe : a.source \in {"git", "recurring"} }

\* the run process holds data; cmd holds the _data of a second process, for
\* instance a delete command
TwoInit ==
    /\ file \in {MissingFile, EmptyFile}
                \cup { OldFile(a, id) : a \in TwoActivities, id \in Tids }
    /\ data = NotLoaded
    /\ ledger_op = NoOp
    /\ written = StoredActivities(file)
    /\ us_marked = <<>>
    /\ InitOrch
    /\ pure = NoPure
    /\ llm = NoLlm
    /\ col = NoCol
    /\ cmd = [pc |-> "instance", data |-> NotLoaded, op |-> NoOp]

\* mark_processed through the second instance
OtherMarkProcessed(a, id) ==
    /\ ~_load_raises(cmd.data, file)
    /\ LET d == _load(cmd.data, file)
           e == mark_processed(d, a, id, IF id = NoId THEN NoUrl ELSE Url(id))
       IN  /\ cmd' = [cmd EXCEPT !.data = e,
                                 !.op = [name |-> "mark_processed", arg |-> Hash(a)]]
           /\ file' = _save(e)
    /\ written' = written \cup {a}
    /\ UNCHANGED <<data, ledger_op, us_marked, runVars, pure, llm, col>>

\* remove_by_task_id through the second instance
OtherRemoveByTaskId(t) ==
    /\ ~_load_raises(cmd.data, file)
    /\ LET d == _load(cmd.data, file)
           found == { h \in DOMAIN d.processed : task_id_matches(d.processed[h], t) }
       IN  IF found # {}
           THEN \E h \in found :
                /\ cmd' = [cmd EXCEPT !.data = remove(d, h),
                                      !.op = [name |-> "remove_by_task_id", arg |-> h]]
                /\ file' = _save(remove(d, h))
                /\ written' = { a \in written : Hash(a) # h }
           ELSE /\ cmd' = [cmd EXCEPT !.data = d,
                                      !.op = [name |-> "remove_by_task_id", arg |-> <<>>]]
                /\ UNCHANGED <<file, written>>
    /\ UNCHANGED <<data, ledger_op, us_marked, runVars, pure, llm, col>>

TwoNext ==
    \/ \E a \in TwoActivities, id \in Tids : MarkProcessed(a, id)
    \/ \E t \in Tids : RemoveByTaskId(t)
    \/ \E a \in TwoActivities, id \in Tids : OtherMarkProcessed(a, id)
    \/ \E t \in Tids : OtherRemoveByTaskId(t)

TwoSpec == TwoInit /\ [][TwoNext]_vars

\* ------------------------------------------------- ledger claims (C14-C20)
\* C14: if the process terminates at any point, also in the middle of a
\* rewrite of the ledger file, the file afterwards holds exactly the entries
\* whose mark had completed (no partial write, no loss of earlier entries),
\* and the next process skips exactly those activities and retries the others.
C14_CrashConsistency ==
    ledger_op.name = "crash" =>
        /\ file.kind # "partial"
        /\ Stored(file).processed = ledger_op.before.processed
        /\ Stored(file).user_stories = ledger_op.before.user_stories
        /\ \A a \in Universe :
            is_processed(Stored(file), a) <=> \E b \in written : Hash(b) = Hash(a)

\* titles that are equal up to diacritics, case and whitespace
TitleClasses ==
    { { <<"R", "e_acute">>, <<" ", "r", "e">> }, { <<"b">>, <<"B">> } }

SameIdentity(a, b) ==
    /\ a.source = b.source
    /\ a.date = b.date
    /\ \E c \in TitleClasses : a.title \in c /\ b.title \in c

\* C15: after any sequence of ledger operations, is_processed(a) is true iff
\* an activity with the same source, the same title up to diacritics, case
\* and whitespace and the same date was marked and its entry has not been
\* removed or cleared since; an entry stored with no ticket id counts.
C15_IsProcessedIff ==
    \A a \in Universe :
        is_processed(_load(data, file), a) <=> \E b \in written : SameIdentity(a, b)

C15_Witness ==
    /\ ledger_op.name = "is_processed" /\ ledger_op.value
    /\ ledger_op.arg \notin written
    /\ data.processed[Hash(ledger_op.arg)].task_id = NoId
    /\ \E a \in Universe : ~is_processed(data, a)

Mutating ==
    {"mark_processed", "mark_user_story_processed", "remove", "remove_by_task_id", "clear"}

\* C16: after a mutating ledger operation returns, a new instance that reads
\* the same file sees the same activity table and the same monthly table as
\* the instance that made the change.
C16_PersistenceRoundTrip ==
    ledger_op.name \in Mutating =>
        /\ Stored(file).processed = data.processed
        /\ Stored(file).user_stories = data.user_stories

C16_Witness ==
    /\ ledger_op.name = "mark_user_story_processed"
    /\ ledger_op.before.file.kind = "old"
    /\ DOMAIN data.processed # {}

C18_Clear ==
    ledger_op.name = "clear" =>
        LET B == [loaded |-> TRUE, processed |-> ledger_op.before.processed,
                  user_stories |-> ledger_op.before.user_stories]
        IN  /\ ledger_op.value = Cardinality(DOMAIN B.processed)
            /\ DOMAIN data.processed = {}
            /\ DOMAIN Stored(file).processed = {}
            /\ data.user_stories = B.user_stories
            /\ \A mk \in Months :
                is_user_story_processed(B, mk[1], mk[2]) =>
                    /\ is_user_story_processed(Stored(file), mk[1], mk[2])
                    /\ get_user_story_id(Stored(file), mk[1], mk[2])
                            = get_user_story_id(B, mk[1], mk[2])

C18_Witness ==
    /\ ledger_op.name = "clear" /\ ledger_op.value >= 2
    /\ DOMAIN data.user_stories # {}

\* C19: marking an activity whose fingerprint is already there leaves one
\* entry under the fingerprint, with the id, url and title of the second
\* call only, and the number of entries does not grow.
C19_Overwrite ==
    ledger_op.name = "mark_processed"
        /\ Hash(ledger_op.arg.activity) \in DOMAIN ledger_op.before.processed =>
        LET B == ledger_op.before
            a == ledger_op.arg.activity
            id == ledger_op.arg.task_id
        IN  /\ data.processed[Hash(a)] =
                    [source |-> a.source, title |-> a.title, date |-> a.date,
                     task_id |-> id, task_url |-> IF id = NoId THEN NoUrl ELSE Url(id)]
            /\ DOMAIN data.processed = DOMAIN B.processed
            /\ \A h \in DOMAIN B.processed \ {Hash(a)} : data.processed[h] = B.processed[h]
            /\ Stored(file).processed = data.processed

C19_Witness ==
    /\ ledger_op.name = "mark_processed"
    /\ Hash(ledger_op.arg.activity) \in DOMAIN ledger_op.before.processed
    /\ ledger_op.before.processed[Hash(ledger_op.arg.activity)].title
            # ledger_op.arg.activity.title
    /\ ledger_op.before.processed[Hash(ledger_op.arg.activity)].task_id # NoId
    /\ ledger_op.arg.task_id = NoId

\* C20: loading never fails for a missing file, a zero-byte file or a file
\* with the activity table only: the first two load as two empty tables, the
\* third with its activity table and an empty monthly table; a later mark
\* writes both tables and loses no earlier activity entry.
C20_Loading ==
    /\ file.kind \in {"missing", "empty", "old"} =>
        /\ ~_load_raises(NotLoaded, file)
        /\ Stored(file).processed = (IF file.kind = "old" THEN file.processed ELSE EmptyTable)
        /\ Stored(file).user_stories = EmptyTable
    /\ ledger_op.name \in Mutating \cup {"is_processed"} =>
        LET B == ledger_op.before
        IN  /\ B.file.kind \in {"missing", "empty"} =>
                B.processed = EmptyTable /\ B.user_stories = EmptyTable
            /\ B.file.kind = "old" =>
                B.processed = B.file.processed /\ B.user_stories = EmptyTable
    /\ ledger_op.name \in {"mark_processed", "mark_user_story_processed"} =>
        LET B == ledger_op.before
        IN  /\ file.kind = "json"
            /\ file.user_stories = data.user_stories
            /\ \A h \in DOMAIN B.file.processed :
                /\ h \in DOMAIN file.processed
                /\ \/ (ledger_op.name = "mark_processed" /\ h = ledger_op.value)
                   \/ file.processed[h] = B.file.processed[h]

C20_Witness ==
    /\ ledger_op.name = "mark_user_story_processed"
    /\ ledger_op.before.file.kind = "old"
    /\ DOMAIN file.processed # {} /\ DOMAIN file.user_stories # {}
    /\ DOMAIN Stored(file).processed = DOMAIN ledger_op.before.file.processed

\* -------------------------------------------- monthly parent ledger (C22)
Marked_us(mk) == mk \in DOMAIN us_marked

\* C22: get_user_story_id(y, m) is the parent id most recently marked for
\* (y, m), None iff (y, m) was never marked, and is_user_story_processed(y, m)
\* is true iff it was marked; marking one month changes neither the status
\* nor the id of another month; the two lookups never modify the ledger.
C22_MonthlyLedger ==
    /\ ~_load_raises(data, file) =>
        \A mk \in Months :
            LET d == _load(data, file)
            IN  /\ is_user_story_processed(d, mk[1], mk[2]) <=> Marked_us(mk)
                /\ get_user_story_id(d, mk[1], mk[2]) =
                        (IF Marked_us(mk) THEN us_marked[mk] ELSE NoId)
    /\ ledger_op.name = "mark_user_story_processed" =>
        LET B == [loaded |-> TRUE, processed |-> ledger_op.before.processed,
                  user_stories |-> ledger_op.before.user_stories]
        IN  /\ get_user_story_id(data, ledger_op.arg[1], ledger_op.arg[2]) = ledger_op.value
            /\ \A mk \in Months \ {ledger_op.arg} :
                /\ is_user_story_processed(data, mk[1], mk[2])
                        <=> is_user_story_processed(B, mk[1], mk[2])
                /\ get_user_story_id(data, mk[1], mk[2]) = get_user_story_id(B, mk[1], mk[2])
    /\ ledger_op.name \in {"get_user_story_id", "is_user_story_processed"} =>
        /\ file = ledger_op.before.file
        /\ data.processed = ledger_op.before.processed
        /\ data.user_stories = ledger_op.before.user_stories
    /\ ledger_op.name = "get_user_story_id" =>
        ledger_op.value = (IF Marked_us(ledger_op.arg) THEN us_marked[ledger_op.arg] ELSE NoId)
    /\ ledger_op.name = "is_user_story_processed" =>
        (ledger_op.value <=> Marked_us(ledger_op.arg))

\* a month is marked a second time, with another id, while the other month
\* is recorded too
C22_Witness ==
    /\ ledger_op.name = "mark_user_story_processed"
    /\ LET B == [loaded |-> TRUE, processed |-> ledger_op.before.processed,
                 user_stories |-> ledger_op.before.user_stories]
       IN  /\ is_user_story_processed(B, ledger_op.arg[1], ledger_op.arg[2])
           /\ get_user_story_id(B, ledger_op.arg[1], ledger_op.arg[2]) # ledger_op.value
    /\ \E mk \in Months \ {ledger_op.arg} :
        Marked_us(mk) /\ us_marked[mk] # ledger_op.value

\* --------------------------------------------- malformed ledger file (C21)
Malformed(f) == f.kind = "partial" \/ f.processed = NoTable

\* the orchestrator function has ended before the end of its list
Aborted == pc = "idle" /\ runs > 0 /\ (months # <<>> \/ idx <= Len(bucket))

\* C21: when the ledger file does not hold the expected structure (not JSON,
\* or JSON without the activity table), a flat or grouped run over a
\* non-empty list ends at its first ledger access: no backend creation call
\* is issued, nothing is visited or counted, and the file is not rewritten.
C21_MalformedIsFatal ==
    Malformed(file0) /\ runs > 0 /\ mode \in {"flat", "grouped"} /\ activities # <<>> =>
        /\ attempted = {}
        /\ backend = {}
        /\ file = file0
        /\ order = <<>> /\ created = 0 /\ skipped = 0
        /\ pc \in {"idle", "loop", "month"}
        /\ pc = "idle" => Aborted

\* ------------------------------------------ what a real run records (C23)
\* C23: every activity entry a real run has written holds a ticket id and the
\* url of that ticket, and they are those of a ticket the backend created for
\* this fingerprint in a create_task call that returned; while a create_task
\* call is in flight, or after it raised, its ticket is not in the ledger and
\* the file is as it was before the call.
C23_EntryRecordsTicket ==
    /\ \A h \in DOMAIN Ledger.processed :
        LET e == Ledger.processed[h]
        IN  /\ e.task_id # NoId
            /\ e.task_url = Url(e.task_id)
            /\ \E t \in backend :
                t.id = e.task_id /\ t.kind = "Task" /\ t.key = h /\ t.returned
    /\ pc \in CallPcs /\ req.kind = "Task" =>
        /\ \A h \in DOMAIN Ledger.processed : Ledger.processed[h].task_id # task_id
        /\ \A t \in backend : t.id = task_id => ~t.returned
    /\ last.kind = "Task" /\ last.result = "raised" => file = last.file_before
    /\ last.kind = "Task" /\ last.result = "returned" =>
        /\ last.key \in DOMAIN Ledger.processed
        /\ (last.key \in DOMAIN Stored(last.file_before).processed =>
                Stored(last.file_before).processed[last.key].task_id
                    # Ledger.processed[last.key].task_id)

\* a fingerprint with two tickets on the backend: the one of a call that
\* raised after its POST, and the recorded one of the call that returned
C23_Witness ==
    /\ last.kind = "Task" /\ last.result = "returned"
    /\ \E h \in DOMAIN Ledger.processed : \E t \in backend :
        /\ t.kind = "Task" /\ t.key = h /\ ~t.returned
        /\ Ledger.processed[h].task_id # t.id
    /\ Cardinality(DOMAIN Ledger.processed) >= 2

\* ------------------------------------------------ grouping by month (C24)
\* the number of months since year 0
Chrono(k) == k[1] * 12 + k[2]

Keys == sorted(MonthKeys(activities))

RECURSIVE Concat(_)
Concat(ss) == IF ss = <<>> THEN <<>> ELSE Head(ss) \o Concat(Tail(ss))

Buckets == [i \in 1..Len(Keys) |-> by_month(activities, Keys[i])]

\* C24: the input is split into one bucket per distinct (year, month) of the
\* dates; the buckets come in ascending chronological order whatever the
\* input order; a bucket keeps the input order; every activity is in exactly
\* one bucket, that of its month; a grouped run visits the activities bucket
\* after bucket.
C24_Grouping ==
    runs > 0 =>
        LET K == Keys
            B == Buckets
            In(i, n) == \E p \in 1..Len(B[i]) : B[i][p] = n
        IN  /\ { K[i] : i \in 1..Len(K) } = { MonthOf(activities[n]) : n \in 1..N }
            /\ \A i, j \in 1..Len(K) : i < j => Chrono(K[i]) < Chrono(K[j])
            /\ \A n \in 1..N :
                /\ Cardinality({ i \in 1..Len(K) : In(i, n) }) = 1
                /\ \A i \in 1..Len(K) :
                    /\ In(i, n) <=> MonthOf(activities[n]) = K[i]
                    /\ Cardinality({ p \in 1..Len(B[i]) : B[i][p] = n }) <= 1
            /\ \A i \in 1..Len(K) : \A p, q \in 1..Len(B[i]) :
                p < q => B[i][p] < B[i][q]
            /\ mode = "grouped" => IsPrefix(order, Concat(B))
            /\ mode = "grouped" /\ Done => order = Concat(B)

\* a finished grouped run over three months handed over out of order, the
\* earliest of them with the highest month number
C24_Witness ==
    /\ Done /\ mode = "grouped"
    /\ Len(Keys) = 3
    /\ Chrono(MonthOf(activities[3])) < Chrono(MonthOf(activities[1]))
    /\ Keys[1][2] > Keys[2][2]
    /\ order = Concat(Buckets)

\* -------------------------------------------- fingerprints (C25, C26)
\* one text is the other with one letter in the other case, one accent more,
\* or one more space at an end or next to a space
CaseOrAccent(a, b) ==
    <<a, b>> \in { <<"E_acute", "e_acute">>, <<"R", "r">>, <<"e_acute", "e">>,
                   <<"E_acute", "e">> }

OneEdit(t1, t2) ==
    \/ /\ Len(t1) = Len(t2)
       /\ \E i \in 1..Len(t1) :
            /\ CaseOrAccent(t1[i], t2[i]) \/ CaseOrAccent(t2[i], t1[i])
            /\ \A j \in 1..Len(t1) : j # i => t1[j] = t2[j]
    \/ /\ Len(t2) = Len(t1) + 1
       /\ \E i \in 1..Len(t2) :
            /\ \/ t2[i] = "acute"
               \/ t2[i] = " " /\ (i = 1 \/ i = Len(t2) \/ t2[i - 1] = " ")
            /\ \A j \in 1..Len(t1) : t1[j] = t2[IF j < i THEN j ELSE j + 1]

Variant(t1, t2) == OneEdit(t1, t2) \/ OneEdit(t2, t1)

\* C25: two fingerprints are equal iff the sources are equal, the normalized
\* titles are equal and the dates are equal, and so are the hashed strings;
\* titles that differ in an accent, in case, or in spaces at the ends or
\* repeated give the same fingerprint; another source or date gives another
\* fingerprint; the hours do not count.
C25_FingerprintIdentity ==
    pure.fn = "generate_hash" =>
        LET x == pure.x
            y == pure.y
            same == /\ x.source = y.source
                    /\ normalize_text(x.title) = normalize_text(y.title)
                    /\ x.date = y.date
        IN  /\ (pure.hx = pure.hy) <=> same
            /\ (pure.cx = pure.cy) <=> same
            /\ x.source = y.source /\ x.date = y.date /\ Variant(x.title, y.title)
                    => pure.hx = pure.hy
            /\ x.source # y.source \/ x.date # y.date => pure.hx # pure.hy

\* equal fingerprints for titles that differ, with different hours
C25_Witness ==
    /\ pure.fn = "generate_hash"
    /\ pure.hx = pure.hy /\ pure.cx = pure.cy
    /\ pure.x.title # pure.y.title /\ pure.x.hours # pure.y.hours
    /\ Variant(pure.x.title, pure.y.title)
    /\ \E i \in 1..Len(pure.y.title) : pure.y.title[i] = ":"

\* C26: normalize_text(normalize_text(x)) = normalize_text(x) for every text
\* x, the empty one maps to the empty one, and the result has no accent, no
\* capital, no space at either end and no two spaces in a row.
C26_NormalizeIdempotent ==
    pure.fn = "normalize_text" =>
        LET r == pure.value
        IN  /\ pure.again = r
            /\ pure.x = <<>> => r = <<>>
            /\ \A i \in 1..Len(r) : r[i] \notin {"acute", "e_acute", "E_acute", "R"}
            /\ r # <<>> => r[1] # " " /\ r[Len(r)] # " "
            /\ \A i \in 1..(Len(r) - 1) : ~(r[i] = " " /\ r[i + 1] = " ")

\* a text with an accented capital, spaces at the ends and two in a row
C26_Witness ==
    /\ pure.fn = "normalize_text"
    /\ pure.x = <<" ", "E_acute", " ", " ">> \/ pure.x = <<"R", " ", " ", "e_acute">>
    /\ pure.value # pure.x
    /\ Len(pure.value) >= 1

\* ------------------------------------------- the enhancer (C27, C28, C29)
Kinds(l) == [i \in 1..Len(l.got) |-> l.got[i].kind]

Completed(l) == \E i \in 1..Len(l.got) : l.got[i].kind = "ok"

OriginalOrEmpty(d) == IF d = NoDescription THEN <<>> ELSE d

\* C27: whatever the HTTP calls end in, a call of enhance_description that
\* ends does so by returning a text, never by raising; when no call gave a
\* well-formed completion the text is the original description, or the
\* empty string if there was none; otherwise it is the completion, stripped.
C27_NeverRaises ==
    llm.pc = "done" =>
        /\ llm.ended = "returned"
        /\ llm.result # NoDescription
        /\ ~Completed(llm) => llm.result = OriginalOrEmpty(llm.description)
        /\ Completed(llm) =>
            /\ llm.got[Len(llm.got)].kind = "ok"
            /\ llm.result = strip(llm.got[Len(llm.got)].content)

\* retries are exhausted after a malformed body, a transport error and 429s,
\* for an activity without a description
C27_Witness ==
    /\ llm.pc = "done" /\ llm.requests = 5
    /\ llm.description = NoDescription /\ llm.result = <<>>
    /\ {"malformed", "error", "429"} \subseteq { llm.got[i].kind : i \in 1..5 }

\* C28: a call of enhance_description issues at most 5 requests and always
\* ends, whatever the responses; when all 5 attempts are answered 429 it
\* returns the fallback after having suspended 5 times.
C28_BoundedRetry ==
    /\ [](llm.pc # "idle" => llm.requests <= 5)
    /\ [](llm.pc = "done" /\ llm.requests = 5
            /\ (\A i \in 1..5 : llm.got[i].kind = "429") =>
                /\ llm.result = OriginalOrEmpty(llm.description)
                /\ Len(llm.sleeps) = 5)
    /\ (llm.pc = "request") ~> (llm.pc = "done")

\* C29: a 429 to attempt k suspends the call once, for the retry-after value
\* of the response when there is one and for 2^k seconds otherwise; a first
\* well-formed 200 after fewer than 5 answers 429 is returned stripped, with
\* one suspension per 429; another error status ends the call at once with
\* the fallback and no further request.
C29_RetryPolicy ==
    llm.pc # "idle" =>
        /\ \A i \in 1..Len(llm.got) :
            llm.got[i].kind = "429" =>
                LET h == llm.got[i].retry_after
                    slept == { j \in 1..Len(llm.sleeps) : llm.sleeps[j].attempt = i - 1 }
                IN  /\ Cardinality(slept) = 1
                    /\ \A j \in slept :
                        CASE h.form = "absent" ->
                                ~llm.sleeps[j].forever /\ llm.sleeps[j].secs = 2^(i - 1)
                          [] h.form = "inf" -> llm.sleeps[j].forever
                          [] OTHER ->
                                ~llm.sleeps[j].forever /\ llm.sleeps[j].secs = h.value
        /\ llm.pc = "done" /\ Completed(llm)
            /\ (\A i \in 1..(Len(llm.got) - 1) : llm.got[i].kind = "429") =>
                /\ llm.result = strip(llm.got[Len(llm.got)].content)
                /\ Len(llm.sleeps) = Len(llm.got) - 1
        /\ \A i \in 1..Len(llm.got) :
            llm.got[i].kind = "status" =>
                /\ i = Len(llm.got) /\ llm.requests = i
                /\ llm.pc = "done"
                /\ llm.result = OriginalOrEmpty(llm.description)

\* ------------------------------------------- collector failures (C30)
NotRaised == { n \in 1..Len(col.outcomes) : ~col.outcomes[n].raised }

Results == [n \in 1..Len(col.outcomes) |-> col.outcomes[n].acts]

NonEmpty(ss) == SelectSeq(ss, LAMBDA x : x # <<>>)

Elems(q) == { q[i] : i \in 1..Len(q) }

\* C30: when collect raises for a (source, date) pair the error is reported,
\* the pair contributes no activity, and every remaining pair is still
\* collected and its activities are still processed, in flat and in grouped
\* mode: at the end of the command every pair has been collected, every
\* pair that raised has been reported, and what was handed to processing,
\* and processed to the end, is what the other pairs returned.
C30_CollectorIsolation ==
    col.pc = "done" =>
        /\ Len(col.outcomes) = Len(Pairs)
        /\ Elems(col.errors) = (1..Len(Pairs)) \ NotRaised
        /\ Len(col.errors) = Cardinality(Elems(col.errors))
        /\ col.handed = IF mode = "grouped"
                        THEN NonEmpty(<<Flatten(Results)>>)
                        ELSE NonEmpty(Results)
        /\ col.returned = Len(col.handed)
        /\ Elems(col.visited) \subseteq Elems(Flatten(Results))
        /\ faults = 0 =>
            /\ Elems(col.visited) = Elems(Flatten(Results))
            /\ Len(col.visited) = Len(Flatten(Results))
            /\ col.total_created + col.total_skipped = Len(col.visited)

\* the first pair raises, the last pair returns an activity, which is
\* processed and created
C30_Witness ==
    /\ col.pc = "done"
    /\ col.outcomes[1].raised
    /\ col.outcomes[Len(Pairs)].acts # <<>>
    /\ col.visited = col.outcomes[Len(Pairs)].acts
    /\ col.total_created = 1
    /\ ~dry_run

\* ------------------------------------------- configuration errors (C31)
\* C31: when the backend access token or a required part of the
\* configuration is missing, the run command aborts without having issued
\* any network call, neither a collector call nor a backend call.
C31_ConfigErrorsFatal ==
    (cmd.pc # "idle" /\ (~cmd.env.pat \/ cmd.env.config # "valid")) =>
        /\ cmd.net = <<>>
        /\ cmd.pc = "done" => cmd.ended \in {"raised", "exit0"}

\* ------------------------------------------- the delete command (C32)
\* C32: for each id passed to the delete command, once the backend delete
\* of the id has succeeded no entry of the ledger, activity entry or
\* monthly-parent entry, references the id; when the backend delete fails
\* the ledger is unchanged and the remaining ids are still processed;
\* deleting an id a second time leaves the ledger unchanged.
C32_DeleteScrubsLedger ==
    /\ \A i \in 1..Len(cmd.results) :
        LET r == cmd.results[i]
        IN  /\ r.ok => r.id \notin Referenced(r.after)
            /\ ~r.ok => r.after = r.before
            /\ r.again => r.after = r.before
    /\ cmd.pc = "done" => Len(cmd.results) = Len(cmd.ids)

\* ------------------------------------------- test_connection (C34)
\* C34: test_connection returns True when the projects endpoint answers
\* 200, and returns False, without raising, when it answers 401 or 403 or
\* when a network error occurs.
C34_TestConnection ==
    \A i \in 1..Len(cmd.log) :
        LET c == cmd.log[i]
        IN  /\ c.response = 200 => c.ended = "returned" /\ c.value
            /\ c.response \in {401, 403, ConnectError} =>
                c.ended = "returned" /\ ~c.value

\* ------------------------------- one fingerprint twice in a run (C37)
\* the activities visited earlier in the run with the fingerprint h whose
\* processing did not fail
EarlierDone(h, i) ==
    { j \in Elems(order) \ {i} : Hash(activities[j]) = h /\ j \notin failed }

\* C37: in a non-rehearsal run over a list that holds a fingerprint several
\* times, once the first occurrence has been created every later occurrence
\* is counted as skipped, not created, with no request, and no creation call
\* is ever in flight for a fingerprint that an earlier activity of the run was
\* created or skipped under: one creation call per fingerprint.
C37_OneCreationPerFingerprint ==
    /\ [](~dry_run /\ pc \in CallPcs /\ req.kind = "Task" =>
            EarlierDone(req.key, req.idx) = {})
    /\ [][ (~dry_run /\ Len(order') = Len(order) + 1
              /\ EarlierDone(Hash(activities[order'[Len(order')]]),
                             order'[Len(order')]) # {}) =>
            /\ skipped' = skipped + 1
            /\ created' = created
            /\ pc' = pc /\ req' = req
            /\ attempted' = attempted /\ backend' = backend
            /\ file' = file ]_vars

\* a real run created the first of two activities with one fingerprint and
\* skipped the second, the fingerprint being new to the ledger
C37_Witness ==
    /\ RealDone /\ N = 2 /\ failed = {}
    /\ Hash(activities[1]) = Hash(activities[2])
    /\ Hash(activities[1]) \notin DOMAIN Ledger0.processed
    /\ created = 1 /\ skipped = 1
    /\ Cardinality({ t \in backend : t.kind = "Task" /\ t.key = Hash(activities[1]) }) = 1

\* ------------------------------------- the active parent id (C38)
\* the parent tickets the backend holds for other months than mk
OtherParents(mk) == { t \in backend : t.kind = "US" /\ t.key # mk }

\* C38: the parent id carried by a child creation request of month M is
\* absent, or it is the id the ledger, cached and on file, records for M at
\* that moment; it is never the id of the parent of another month, also when
\* the creation of M's parent failed after the parent of an earlier month
\* was created or reused. The active parent id itself is absent or M's.
C38_ParentScopedToMonth ==
    /\ ChildCall =>
        /\ req.parent_id = user_story_id
        /\ req.parent_id # NoId =>
            /\ req.parent_id = get_user_story_id(data, ReqMonth[1], ReqMonth[2])
            /\ req.parent_id = get_user_story_id(Ledger, ReqMonth[1], ReqMonth[2])
        /\ \A t \in OtherParents(ReqMonth) : t.id # req.parent_id
    /\ mode = "grouped" /\ pc = "child" /\ user_story_id # NoId =>
        user_story_id = get_user_story_id(Ledger, Head(months)[1], Head(months)[2])

\* a child is submitted without parent in a month whose parent creation
\* failed, after the parent of an earlier month was created and recorded
C38_Witness ==
    /\ ChildCall /\ req.parent_id = NoId
    /\ \E f \in injected : f.kind = "US" /\ f.key = ReqMonth /\ Raising(f)
    /\ \E t \in OtherParents(ReqMonth) :
        /\ t.returned
        /\ get_user_story_id(Ledger, t.key[1], t.key[2]) = t.id
        /\ MonthLess(t.key, ReqMonth)

\* ------------------------------------------------- convergence (C39)
MonthsOfInput == { MonthOf(activities[i]) : i \in 1..N }

\* every fingerprint of the list is in the ledger l, and in grouped mode
\* every month key
Converged(l) ==
    /\ \A i \in 1..N : Hash(activities[i]) \in DOMAIN l.processed
    /\ mode = "grouped" => \A mk \in MonthsOfInput : UsKey(mk) \in DOMAIN l.user_stories

\* C39: for a fixed list, a complete non-rehearsal run in which every
\* backend call succeeds leaves every fingerprint, and in grouped mode every
\* month key, in the ledger; a run that starts from such a ledger creates
\* nothing, skips every activity, issues no creation call and leaves the
\* ledger so; and every run ends, each backend call returning or failing.
C39_Convergence ==
    /\ [](RealDone /\ injected = {} => Converged(Ledger))
    /\ [](runs > 0 /\ Converged(Ledger0) =>
            /\ created = 0 /\ attempted = {} /\ failed = {}
            /\ Converged(Ledger)
            /\ Done => skipped = N)
    /\ (pc # "idle") ~> (pc = "idle")

\* a grouped run after a grouped real run without failure, over a list of
\* two months: everything is skipped
C39_Witness ==
    /\ Done /\ runs = 2 /\ mode = "grouped" /\ N >= 2
    /\ prev.mode = "grouped" /\ ~prev.dry_run /\ prev.clean /\ prev.created = N
    /\ Cardinality(MonthsOfInput) = 2
    /\ Converged(Ledger0)
    /\ skipped = N /\ created = 0

\* ------------------------------------ two instances on one file (C40)
\* C40: with two ledger instances on one file, every entry marked through
\* one instance is still in the file after any later mutation through the
\* other, and every entry removed through one instance stays removed: the
\* file holds the fingerprints marked and not removed since, no other.
C40_TwoInstances ==
    DOMAIN Stored(file).processed = { Hash(a) : a \in written }

\* --------------------------------------------------------------- skipping
\* this step of the loop is the visit of an activity that is in the ledger
SkipStep ==
    /\ Len(order') = Len(order) + 1
    /\ is_processed(_load(data, file), activities[order'[Len(order')]])

\* C35: the visit of an activity that is already in the ledger makes no call
\* to the backend and none to the enhancer, adds one to the skipped count,
\* leaves the created count alone, and leaves both tables of the ledger as
\* they were, in memory and in the file.
C35_SkipSideEffectFree ==
    /\ [](llm.pc # "idle" => Pending)
    /\ [][SkipStep =>
            /\ skipped' = skipped + 1
            /\ created' = created
            /\ file' = file
            /\ data'.processed = _load(data, file).processed
            /\ data'.user_stories = _load(data, file).user_stories
            /\ backend' = backend /\ nextId' = nextId
            /\ calls' = calls /\ attempted' = attempted
            /\ req' = req /\ pc' = pc
            /\ llm = NoLlm /\ llm' = NoLlm
            /\ ~Described /\ cmd' = cmd]_vars

\* an activity was skipped in a run whose other activity went to the enhancer
C35_Witness ==
    /\ skipped > 0
    /\ cmd.tag[1] = runs
    /\ Len(activities) = 2

\* ------------------------------------------ the enhancer and the creation
\* a creation request for an activity is on its way
Submitted == pc = "post" /\ req.kind = "Task"

\* C36: whatever the enhancer does, every activity that is not in the ledger
\* gets exactly one creation request in a real run: the request follows the
\* visit, it carries the description the enhancer call ended with, which
\* after a fallback is the activity's own description or the empty text, and
\* no activity gets a second request in the same run.
C36_EnhancerNeverPrevents ==
    /\ [](Submitted =>
            /\ cmd.tag = <<runs, req.idx>>
            /\ cmd.fell_back =>
                 cmd.description = description_or_empty(description_of(activities[req.idx])))
    /\ [][Submitted' /\ ~Submitted => req'.idx \notin Elems(order)]_vars
    /\ (Pending /\ ~dry_run) ~> Submitted

\* ------------------------------------------------- one thing at a time
\* the network calls of the run that have been sent and not yet answered
InFlight ==
    (IF llm.pc = "request" THEN 1 ELSE 0) + (IF pc \in CallPcs THEN 1 ELSE 0)

\* this step starts the processing of an activity: its enhancer call or, when
\* there is none to make, its visit
StartsActivity ==
    \/ llm.pc = "idle" /\ llm'.pc = "request"
    \/ Len(order') = Len(order) + 1 /\ ~Described

\* the activities visited so far in a real run whose creation did not fail
Settled == IF dry_run THEN {} ELSE { j \in Elems(order) : j \notin failed }

\* C33: within a run at most one network call is in flight (the enhancer's
\* request, or the POST, or one of the two PATCHes); the processing of an
\* activity starts with no request pending and with every activity settled
\* before it in the file; the cached tables are those of the file whenever
\* the cache is filled, and no fingerprint or month key leaves the file.
C33_StrictlySequential ==
    /\ [](InFlight <= 1)
    /\ [](llm.pc # "idle" => pc \in {"loop", "child"} /\ req = NoReq)
    /\ [][StartsActivity =>
            /\ req = NoReq /\ pc \in {"loop", "child"}
            /\ \A j \in Settled :
                 Hash(activities[j]) \in DOMAIN Stored(file).processed]_vars
    /\ [](data # NotLoaded =>
            /\ data.processed = Stored(file).processed
            /\ data.user_stories = Stored(file).user_stories)
    /\ [][/\ DOMAIN Stored(file).processed \subseteq DOMAIN Stored(file').processed
          /\ DOMAIN Stored(file).user_stories \subseteq DOMAIN Stored(file').user_stories]_vars

\* the second activity of a real run went to the enhancer after the first
\* one's entry had been written
C33_Witness ==
    /\ ~dry_run
    /\ llm.pc = "request"
    /\ idx = 2
    /\ 1 \in Settled
    /\ Hash(activities[1]) \in DOMAIN Stored(file).processed
    /\ Hash(activities[2]) \notin DOMAIN Stored(file).processed

====
